---- MODULE Spec2Model ----
(***************************************************************************)
(* The Go AST analyzer of vscode-go-interface (ast-analyzer/main.go): a    *)
(* command that scans a tree of Go files and answers five queries about    *)
(* interface declarations and the methods that implement them.             *)
(*                                                                         *)
(* The state is the file tree (the declarations of each Go file) and the   *)
(* observable result of the last run of the command: its arguments, its    *)
(* exit status and what it wrote to standard output.                       *)
(***************************************************************************)
EXTENDS Integers, Sequences, FiniteSets, TLC

\* Bounds of the model.  A tree holds up to MaxMixedDecls declarations of any
\* kind in any file, or up to MaxDecls plain declarations (interfaces that
\* list named methods only, methods on T or *T) in the plain files; an
\* interface declaration has up to MaxMethods entries.  Up to MaxDenied files
\* or directories of a tree of plain declarations cannot be read.
MaxDecls == 3
MaxMixedDecls == 2
MaxMethods == 2
MaxDenied == 1
MaxPackageDecls == 2
MaxNames == 2

MethodNames == {"A", "B"}
InterfaceNames == {"I", "J"}
TypeNames == {"T"}

(***************************************************************************)
(* The file tree.  One workspace directory "w" with a hidden directory, a  *)
(* plain sub-directory and a vendor directory; the files are listed in the *)
(* lexical order in which filepath.Walk("w") visits them (the entries of a *)
(* directory in the order of their names, a directory before its files).   *)
(***************************************************************************)
Root == "w"

AllFiles ==
  << [path |-> "w/.hid/h.go",   dir |-> "w/.hid"],
     [path |-> "w/a.go",        dir |-> "w"],
     [path |-> "w/a_test.go",   dir |-> "w"],
     [path |-> "w/sub/c.go",    dir |-> "w/sub"],
     [path |-> "w/vendor/v.go", dir |-> "w/vendor"],
     [path |-> "w/z.go",        dir |-> "w"] >>

GoPaths == {AllFiles[i].path : i \in DOMAIN AllFiles}
PlainPaths == {"w/a.go", "w/sub/c.go", "w/z.go"}
Dirs == {AllFiles[i].dir : i \in DOMAIN AllFiles}

\* Paths the command can be pointed at that hold no Go source: a file that
\* does not exist and a file of another language.
MissingPath == "w/missing.go"
TextPath == "w/notes.txt"
Targets == GoPaths \cup {MissingPath, TextPath}

\* strings.HasSuffix(path, ".go")
HasSuffixGo(path) == path \in GoPaths \cup {MissingPath}
\* strings.HasSuffix(path, "_test.go")
HasSuffixTest(path) == path = "w/a_test.go"
\* strings.Contains(path, "vendor"), for the path of a directory
ContainsVendor(dir) == dir = "w/vendor"
\* strings.HasPrefix(info.Name(), "."), for a directory
HasPrefixDot(dir) == dir = "w/.hid"
\* filepath.Dir(filePath)
DirOf(path) ==
  IF \E i \in DOMAIN AllFiles : AllFiles[i].path = path
    THEN (CHOOSE f \in {AllFiles[i] : i \in DOMAIN AllFiles} : f.path = path).dir
    ELSE Root
\* dir is directory d or lies below it
Under(dir, d) == dir = d \/ d = Root

(***************************************************************************)
(* Source files.  A file is the sequence of its top-level declarations, as *)
(* go/parser delivers them; a "bad" declaration is a syntax error, which   *)
(* makes parser.ParseFile fail for the whole file.                         *)
(***************************************************************************)
NoRecv == [tag |-> "nil", name |-> ""]
Receivers ==
  {NoRecv} \cup
  {[tag |-> t, name |-> n] : t \in {"Ident", "StarIdent"}, n \in TypeNames} \cup
  {[tag |-> "Other", name |-> ""]}

\* An entry of an interface's method list is an ast.Field: Names holds the
\* method name, and is empty for an embedded interface.
Entries == {<<m>> : m \in MethodNames} \cup {<<>>}

NamedEntries(entries) ==
  {i \in DOMAIN entries : Len(entries[i]) > 0}

\* Method names are not repeated within one declaration (spec section 3).
EntryLists ==
  {es \in UNION {[1..n -> Entries] : n \in 0..MaxMethods} :
     \A i, j \in NamedEntries(es) : es[i] = es[j] => i = j}

InterfaceDecls ==
  {[kind |-> "iface", name |-> n, entries |-> es, recv |-> NoRecv] :
     n \in InterfaceNames, es \in EntryLists}
FuncDecls ==
  {[kind |-> "func", name |-> m, entries |-> <<>>, recv |-> r] :
     m \in MethodNames, r \in Receivers}
BadDecl == [kind |-> "bad", name |-> "", entries |-> <<>>, recv |-> NoRecv]
Decls == InterfaceDecls \cup FuncDecls \cup {BadDecl}

PlainDecl(d) ==
  \/ /\ d.kind = "iface"
     /\ Len(d.entries) > 0
     /\ \A i \in DOMAIN d.entries : Len(d.entries[i]) > 0
  \/ /\ d.kind = "func"
     /\ d.recv.tag \in {"Ident", "StarIdent"}
PlainDecls == {d \in Decls : PlainDecl(d)}

VARIABLES
  fs,      \* path of a Go file -> the declarations it holds
  argv,    \* os.Args[1:] of the last run
  exit,    \* exit status of the last run, -1 before any run
  stdout,  \* lines written to standard output by the last run
  denied,  \* the files and directories that cannot be read
  call,    \* calls of isExactMatch under observation: arguments and result
  editor,  \* the document of vscode.window.activeTextEditor
  runs,    \* the calls of provideCodeLenses, in the order they were started
  timers,  \* the documents of the setTimeout callbacks not yet run
  shown,   \* document -> the gutter decorations its editor shows
  jump,    \* the locations the last navigation command handed to the editor
  log      \* counts: change events of the Go document while it is the active
           \* document (events) and while it is not (background), saves

\* the state of the editor extension (src/extension.ts)
ext == <<editor, runs, timers, shown, jump, log>>

vars == <<fs, argv, exit, stdout, denied, call, ext>>

(***************************************************************************)
(* Sequence helpers.                                                       *)
(***************************************************************************)
RECURSIVE Concat(_)
Concat(ss) ==
  IF ss = <<>> THEN <<>> ELSE Head(ss) \o Concat(Tail(ss))

\* The elements of a finite set of integers, ascending.
Ascending(S) ==
  [k \in 1..Cardinality(S) |->
     CHOOSE x \in S : Cardinality({y \in S : y <= x}) = k]

\* Every order in which a Go `range` over a map with key set S can deliver
\* the keys: the iteration order of a map is unspecified and varies from one
\* run to the next.
Orders(S) ==
  {o \in [1..Cardinality(S) -> S] : \A i, j \in DOMAIN o : o[i] = o[j] => i = j}

Range(s) == {s[i] : i \in DOMAIN s}

(***************************************************************************)
(* go/parser and go/token: the positions of the nodes of a file.  Line 1   *)
(* holds the package clause; every declaration starts on a line of its     *)
(* own, an interface has one line per entry (indented by a tab) between    *)
(* the line of its opening and the line of its closing brace, and a method *)
(* has its signature, one body line and its closing brace.  Positions are  *)
(* one-based, as token.Position reports them.                              *)
(***************************************************************************)
Size(d) ==
  IF d.kind = "iface" THEN Len(d.entries) + 2
  ELSE IF d.kind = "func" THEN 3
  ELSE 1

RECURSIVE LinesBefore(_, _)
LinesBefore(ds, i) ==
  IF i = 1 THEN 1 ELSE LinesBefore(ds, i - 1) + Size(ds[i - 1])

\* fset.Position(method.Pos()) of entry k of the interface declared at i
EntryPos(ds, i, k) == [Line |-> LinesBefore(ds, i) + 1 + k, Column |-> 2]
\* fset.Position(node.Pos()) of the function declared at i
FuncPos(ds, i) == [Line |-> LinesBefore(ds, i) + 1, Column |-> 1]
\* fset.Position(node.End()) of the function declared at i
FuncEnd(ds, i) == [Line |-> LinesBefore(ds, i) + 3, Column |-> 2]

\* os.ReadFile succeeds
Readable(tree, path) == path \in DOMAIN tree /\ path \notin denied
\* parser.ParseFile succeeds
Parses(tree, path) == \A i \in DOMAIN tree[path] : tree[path][i].kind # "bad"

\* getReceiverType that drops the star of a pointer receiver
getReceiverType_Unified(recv) ==
  IF recv.tag \in {"Ident", "StarIdent"} THEN recv.name ELSE ""

(***************************************************************************)
(* getReceiverType (main.go 774-789)                                       *)
(***************************************************************************)
getReceiverType(recv) ==
  IF recv.tag = "Ident" THEN recv.name
  ELSE IF recv.tag = "StarIdent" THEN "*" \o recv.name
  ELSE ""

\* isExactMatch that compares the lengths of the two lists first
isExactMatch_SameLength(typeMethods, interfaceMethods) ==
  /\ Len(typeMethods) = Len(interfaceMethods)
  /\ \A i \in DOMAIN interfaceMethods :
       \E j \in DOMAIN typeMethods : typeMethods[j] = interfaceMethods[i]

\* isExactMatch as set equality: a type with a method beyond the interface's
\* is rejected (the strict policy of isCompleteAndExactImplementation).
isExactMatch_Equal(typeMethods, interfaceMethods) ==
  {typeMethods[i] : i \in DOMAIN typeMethods}
    = {interfaceMethods[i] : i \in DOMAIN interfaceMethods}

(***************************************************************************)
(* isExactMatch (main.go 414-429): the subset policy.                      *)
(***************************************************************************)
isExactMatch(typeMethods, interfaceMethods) ==
  LET typeMethodSet == {typeMethods[i] : i \in DOMAIN typeMethods}
  IN \A i \in DOMAIN interfaceMethods : interfaceMethods[i] \in typeMethodSet

(***************************************************************************)
(* The names of the explicitly named entries of an interface declaration,  *)
(* in declaration order (the loop at main.go 348-352, 394-398, 522-526).   *)
(***************************************************************************)
MethodList(d) ==
  LET named == Ascending(NamedEntries(d.entries))
  IN [k \in DOMAIN named |-> d.entries[named[k]][1]]

Location(file, line, column) == [file |-> file, line |-> line, column |-> column]
ZeroLocation == Location("", 0, 0)

\* findFileInterfaces reporting the parser's one-based line unchanged.
InterfaceMethodsOf_OneBased(filePath, ds, i) ==
  LET named == Ascending(NamedEntries(ds[i].entries))
  IN [k \in DOMAIN named |->
        LET startPos == EntryPos(ds, i, named[k])
        IN [name |-> ds[i].entries[named[k]][1],
            interfaceName |-> ds[i].name,
            location |-> Location(filePath, startPos.Line, startPos.Column - 1),
            endLocation |-> Location(filePath, startPos.Line, 0)]]

(***************************************************************************)
(* findFileInterfaces (main.go 158-214)                                    *)
(***************************************************************************)
\* the loop over interfaceType.Methods.List (184-206)
InterfaceMethodsOf(filePath, ds, i) ==
  LET named == Ascending(NamedEntries(ds[i].entries))
  IN [k \in DOMAIN named |->
        LET startPos == EntryPos(ds, i, named[k])
        IN [name |-> ds[i].entries[named[k]][1],
            interfaceName |-> ds[i].name,
            location |-> Location(filePath, startPos.Line - 1, startPos.Column - 1),
            endLocation |-> Location(filePath, startPos.Line, 0)]]

findFileInterfaces(tree, filePath) ==
  IF ~HasSuffixGo(filePath) THEN <<>>
  ELSE IF ~Readable(tree, filePath) THEN <<>>
  ELSE IF ~Parses(tree, filePath) THEN <<>>
  ELSE LET ds == tree[filePath]
       IN Concat([i \in DOMAIN ds |->
                    IF ds[i].kind = "iface"
                      THEN InterfaceMethodsOf(filePath, ds, i) ELSE <<>>])

(***************************************************************************)
(* filepath.Walk(dir, ...) and filepath.Glob(dir/*.go): the Go files       *)
(* visited, in lexical order.                                              *)
(***************************************************************************)
\* the paths of the files at the given positions of the walk, in walk order
PathsAt(positions) ==
  LET idx == Ascending(positions)
  IN [k \in DOMAIN idx |-> AllFiles[idx[k]].path]

\* Every file below dir: the callback of findAllInterfacesInDirectory never
\* returns filepath.SkipDir, and returns nil when it is called with the
\* error of a directory that cannot be read (314-317), so that the walk goes
\* on with the next entry and only the content of that directory is missed.
WalkAll(dir) ==
  PathsAt({i \in DOMAIN AllFiles :
             /\ Under(AllFiles[i].dir, dir)
             /\ dir \notin denied
             /\ AllFiles[i].dir \notin denied})

\* the position in the walk at which a directory below the root is entered
FirstIn(dir) ==
  CHOOSE i \in DOMAIN AllFiles :
    /\ AllFiles[i].dir = dir
    /\ \A j \in DOMAIN AllFiles : AllFiles[j].dir = dir => i <= j

\* filepath.Walk started at a file visits that file alone: the callback sees
\* no directory, so nothing is skipped by directory.

\* The callbacks of findInterfaces, findAllInterfacesWithMethods and
\* collectAllTypeMethods return filepath.SkipDir for a directory (the root of
\* the walk included) whose path contains "vendor" or whose name starts with
\* a dot, and skip test files.
SkipDir(dir) == ContainsVendor(dir) \/ HasPrefixDot(dir)

\* The same callbacks return the error they are called with (494-496,
\* 552-554, 714-716), before they look at the name of the directory: the
\* walk ends at the first directory that cannot be read, and what was
\* collected up to there is the result.
Aborted(directory, i) ==
  \E d \in denied \cap Dirs :
    /\ Under(d, directory)
    /\ d = directory \/ FirstIn(d) <= i

WalkSources(directory) ==
  LET visited(f) == /\ \/ f.path = directory
                       \/ /\ Under(f.dir, directory)
                          /\ ~SkipDir(directory)
                          /\ ~SkipDir(f.dir)
                    /\ HasSuffixGo(f.path)
                    /\ ~HasSuffixTest(f.path)
  IN PathsAt({i \in DOMAIN AllFiles :
                visited(AllFiles[i]) /\ ~Aborted(directory, i)})

\* filepath.Glob ignores the error of a directory that cannot be read and
\* matches nothing in it.
Glob(dir) ==
  PathsAt({i \in DOMAIN AllFiles : AllFiles[i].dir = dir /\ dir \notin denied})

(***************************************************************************)
(* findAllInterfacesInDirectory (main.go 308-410): the method lists of the *)
(* interfaces below dir that name at least one method.  The walk callback  *)
(* returns nil for every error, so the fallback at 364-407 never runs.     *)
(***************************************************************************)
\* the lists of every interface of a file, the empty lists included
InterfaceListsOf_All(ds) ==
  LET idx == Ascending({i \in DOMAIN ds : ds[i].kind = "iface"})
  IN [k \in DOMAIN idx |-> MethodList(ds[idx[k]])]

InterfaceListsOf(ds) ==
  LET idx == Ascending({i \in DOMAIN ds :
                          ds[i].kind = "iface" /\ Len(MethodList(ds[i])) > 0})
  IN [k \in DOMAIN idx |-> MethodList(ds[idx[k]])]

findAllInterfacesInDirectory(tree, dir) ==
  LET paths == WalkAll(dir)
  IN Concat([k \in DOMAIN paths |->
               IF /\ HasSuffixGo(paths[k])
                  /\ ~HasSuffixTest(paths[k])
                  /\ Readable(tree, paths[k])
                  /\ Parses(tree, paths[k])
                 THEN InterfaceListsOf(tree[paths[k]]) ELSE <<>>])

(***************************************************************************)
(* findFileImplementations (main.go 217-305).  order is the order in which *)
(* `range typeMethods` delivers the receiver types.                        *)
(***************************************************************************)
\* typeMethods[receiverType] assigned instead of appended to: the last
\* method of the type in the file is all that remains
FileTypeMethods_Last(ds, receiverType) ==
  LET idx == Ascending({i \in DOMAIN ds :
                          /\ ds[i].kind = "func"
                          /\ ds[i].recv.tag # "nil"
                          /\ getReceiverType(ds[i].recv) = receiverType})
  IN IF idx = <<>> THEN <<>> ELSE << ds[idx[Len(idx)]].name >>

\* typeMethods[receiverType]: the method names of the file, in source order
FileTypeMethods(ds, receiverType) ==
  LET idx == Ascending({i \in DOMAIN ds :
                          /\ ds[i].kind = "func"
                          /\ ds[i].recv.tag # "nil"
                          /\ getReceiverType(ds[i].recv) = receiverType})
  IN [k \in DOMAIN idx |-> ds[idx[k]].name]

FileReceiverTypes(ds) ==
  {getReceiverType(ds[i].recv) :
     i \in {j \in DOMAIN ds : ds[j].kind = "func" /\ ds[j].recv.tag # "nil"}}

\* the second ast.Inspect (268-296): every method of receiverType in the file
ImplementationsOf(filePath, ds, receiverType) ==
  LET idx == Ascending({i \in DOMAIN ds :
                          /\ ds[i].kind = "func"
                          /\ ds[i].recv.tag # "nil"
                          /\ getReceiverType(ds[i].recv) = receiverType})
  IN [k \in DOMAIN idx |->
        LET startPos == FuncPos(ds, idx[k])
            endPos == FuncEnd(ds, idx[k])
        IN [methodName |-> ds[idx[k]].name,
            receiverType |-> receiverType,
            location |-> Location(filePath, startPos.Line - 1, startPos.Column - 1),
            endLocation |-> Location(filePath, endPos.Line - 1, endPos.Column - 1)]]

findFileImplementations(tree, filePath, order) ==
  IF ~HasSuffixGo(filePath) THEN <<>>
  ELSE IF ~Readable(tree, filePath) THEN <<>>
  ELSE IF ~Parses(tree, filePath) THEN <<>>
  ELSE LET ds == tree[filePath]
           allInterfaces == findAllInterfacesInDirectory(tree, DirOf(filePath))
       IN Concat([k \in DOMAIN order |->
                    IF \E i \in DOMAIN allInterfaces :
                         isExactMatch(FileTypeMethods(ds, order[k]), allInterfaces[i])
                      THEN ImplementationsOf(filePath, ds, order[k])
                      ELSE <<>>])

\* the key set of typeMethods for filePath (empty when the file is not loaded)
FileKeys(tree, filePath) ==
  IF HasSuffixGo(filePath) /\ Readable(tree, filePath) /\ Parses(tree, filePath)
    THEN FileReceiverTypes(tree[filePath]) ELSE {}

(***************************************************************************)
(* findAllInterfacesWithMethods (main.go 489-544): every interface of the  *)
(* walk with its name and method list, the empty lists included.           *)
(***************************************************************************)
InterfaceInfosOf(ds) ==
  LET idx == Ascending({i \in DOMAIN ds : ds[i].kind = "iface"})
  IN [k \in DOMAIN idx |->
        [Name |-> ds[idx[k]].name, Methods |-> MethodList(ds[idx[k]])]]

findAllInterfacesWithMethods(tree, directory) ==
  LET paths == WalkSources(directory)
  IN Concat([k \in DOMAIN paths |->
               IF Readable(tree, paths[k]) /\ Parses(tree, paths[k])
                 THEN InterfaceInfosOf(tree[paths[k]]) ELSE <<>>])

(***************************************************************************)
(* collectTypeMethods (main.go 594-624): the methods of one file, each     *)
(* with the MethodInfo the code stores for it.                             *)
(***************************************************************************)
collectTypeMethods(path, ds) ==
  LET idx == Ascending({i \in DOMAIN ds :
                          ds[i].kind = "func" /\ ds[i].recv.tag # "nil"})
  IN [k \in DOMAIN idx |->
        LET pos == FuncPos(ds, idx[k])
            endPos == FuncEnd(ds, idx[k])
        IN [receiverType |-> getReceiverType(ds[idx[k]].recv),
            name |-> ds[idx[k]].name,
            Location |-> Location(path, pos.Line, pos.Column),
            EndLocation |-> Location(path, endPos.Line, endPos.Column - 1)]]

\* collectAllTypeMethods that starts a new method map for a receiver type in
\* every file: the methods of the last file that declares the type remain.
collectAllTypeMethods_LastFile(tree, directory) ==
  LET paths == WalkSources(directory)
      writes == Concat([k \in DOMAIN paths |->
                  IF Readable(tree, paths[k]) /\ Parses(tree, paths[k])
                    THEN collectTypeMethods(paths[k], tree[paths[k]]) ELSE <<>>])
      types == {writes[i].receiverType : i \in DOMAIN writes}
      lastOf(t) == CHOOSE i \in DOMAIN writes :
                     /\ writes[i].receiverType = t
                     /\ \A j \in DOMAIN writes : writes[j].receiverType = t => j <= i
      kept(t) == {i \in DOMAIN writes :
                    /\ writes[i].receiverType = t
                    /\ writes[i].Location.file = writes[lastOf(t)].Location.file}
      last(t, n) == CHOOSE i \in kept(t) :
                      /\ writes[i].name = n
                      /\ \A j \in kept(t) : writes[j].name = n => j <= i
  IN [t \in types |->
        [n \in {writes[i].name : i \in kept(t)} |-> writes[last(t, n)]]]

(***************************************************************************)
(* collectAllTypeMethods (main.go 547-584): the writes to allTypeMethods   *)
(* in the order of the walk; a later write to                              *)
(* allTypeMethods[receiverType][name] replaces an earlier one.             *)
(***************************************************************************)
collectAllTypeMethods(tree, directory) ==
  LET paths == WalkSources(directory)
      writes == Concat([k \in DOMAIN paths |->
                  IF Readable(tree, paths[k]) /\ Parses(tree, paths[k])
                    THEN collectTypeMethods(paths[k], tree[paths[k]]) ELSE <<>>])
      types == {writes[i].receiverType : i \in DOMAIN writes}
      last(t, n) == CHOOSE i \in DOMAIN writes :
                      /\ writes[i].receiverType = t /\ writes[i].name = n
                      /\ \A j \in DOMAIN writes :
                           (writes[j].receiverType = t /\ writes[j].name = n) => j <= i
  IN [t \in types |->
        [n \in {writes[i].name : i \in {j \in DOMAIN writes : writes[j].receiverType = t}}
           |-> writes[last(t, n)]]]

(***************************************************************************)
(* findImplementations (main.go 432-480).  order is the order in which     *)
(* `range allTypeMethods` delivers the receiver types.                     *)
(***************************************************************************)
\* the loop at 439-449 without its break: the last interface that lists
\* methodName wins.
TargetInterface_Last(allInterfaces, methodName) ==
  LET has == {i \in DOMAIN allInterfaces :
                \E k \in DOMAIN allInterfaces[i].Methods :
                  allInterfaces[i].Methods[k] = methodName}
  IN IF has = {} THEN 0 ELSE CHOOSE i \in has : \A j \in has : i >= j

\* the loop at 439-449: the index of the first interface that lists
\* methodName, 0 when there is none (targetInterface == nil)
TargetInterface(allInterfaces, methodName) ==
  LET has == {i \in DOMAIN allInterfaces :
                \E k \in DOMAIN allInterfaces[i].Methods :
                  allInterfaces[i].Methods[k] = methodName}
  IN IF has = {} THEN 0 ELSE CHOOSE i \in has : \A j \in has : i <= j

\* `for name := range methods`: the keys of a method map in some order; the
\* set built from them by isExactMatch does not depend on that order.
MethodNamesOf(methods) ==
  LET names == DOMAIN methods
  IN CHOOSE o \in Orders(names) : TRUE

\* findImplementations without the early return at 451-453: with no target
\* interface every type that has the method is returned.
findImplementations_NoTarget(tree, directory, methodName, order) ==
  LET allInterfaces == findAllInterfacesWithMethods(tree, directory)
      target == TargetInterface(allInterfaces, methodName)
      required == IF target = 0 THEN <<>> ELSE allInterfaces[target].Methods
      allTypeMethods == collectAllTypeMethods(tree, directory)
  IN Concat([k \in DOMAIN order |->
       LET methods == allTypeMethods[order[k]]
       IN IF /\ isExactMatch(MethodNamesOf(methods), required)
             /\ methodName \in DOMAIN methods
            THEN << [methodName |-> methodName,
                     receiverType |-> order[k],
                     location |-> methods[methodName].Location,
                     endLocation |-> methods[methodName].EndLocation] >>
            ELSE <<>>])

findImplementations(tree, directory, methodName, order) ==
  LET allInterfaces == findAllInterfacesWithMethods(tree, directory)
      target == TargetInterface(allInterfaces, methodName)
  IN IF target = 0 THEN <<>>
     ELSE LET allTypeMethods == collectAllTypeMethods(tree, directory)
          IN Concat([k \in DOMAIN order |->
               LET methods == allTypeMethods[order[k]]
               IN IF /\ isExactMatch(MethodNamesOf(methods),
                                     allInterfaces[target].Methods)
                     /\ methodName \in DOMAIN methods
                    THEN << [methodName |-> methodName,
                             receiverType |-> order[k],
                             location |-> methods[methodName].Location,
                             endLocation |-> methods[methodName].EndLocation] >>
                    ELSE <<>>])

\* the key set of allTypeMethods
TreeKeys(tree, directory) == DOMAIN collectAllTypeMethods(tree, directory)

(***************************************************************************)
(* findInterfaces (main.go 709-772)                                        *)
(***************************************************************************)
\* the ast.Inspect body of findInterfaces reporting the parser's one-based
\* position unchanged
InterfacesNaming_OneBased(path, ds, methodName) ==
  Concat([i \in DOMAIN ds |->
    IF ds[i].kind # "iface" THEN <<>>
    ELSE LET hit == Ascending({k \in NamedEntries(ds[i].entries) :
                                 ds[i].entries[k][1] = methodName})
         IN [n \in DOMAIN hit |->
               LET pos == EntryPos(ds, i, hit[n])
               IN [name |-> methodName,
                   interfaceName |-> ds[i].name,
                   location |-> Location(path, pos.Line, pos.Column),
                   endLocation |-> ZeroLocation]]])

InterfacesNaming(path, ds, methodName) ==
  Concat([i \in DOMAIN ds |->
    IF ds[i].kind # "iface" THEN <<>>
    ELSE LET hit == Ascending({k \in NamedEntries(ds[i].entries) :
                                 ds[i].entries[k][1] = methodName})
         IN [n \in DOMAIN hit |->
               LET pos == EntryPos(ds, i, hit[n])
               IN [name |-> methodName,
                   interfaceName |-> ds[i].name,
                   location |-> Location(path, pos.Line - 1, pos.Column - 1),
                   endLocation |-> ZeroLocation]]])

\* findInterfaces whose callback returns the error of a file it cannot read
\* or parse: the walk ends at that file.
findInterfaces_AbortOnFault(tree, directory, methodName) ==
  LET paths == WalkSources(directory)
      faults == {k \in DOMAIN paths :
                   /\ paths[k] \in DOMAIN tree
                   /\ ~(Readable(tree, paths[k]) /\ Parses(tree, paths[k]))}
      sound == {k \in DOMAIN paths :
                  paths[k] \in DOMAIN tree /\ \A j \in faults : k < j}
  IN Concat([k \in DOMAIN paths |->
               IF k \in sound
                 THEN InterfacesNaming(paths[k], tree[paths[k]], methodName)
                 ELSE <<>>])

\* findInterfaces keeping one entry per interface name.
findInterfaces_Dedup(tree, directory, methodName) ==
  LET paths == WalkSources(directory)
      all == Concat([k \in DOMAIN paths |->
               IF Readable(tree, paths[k]) /\ Parses(tree, paths[k])
                 THEN InterfacesNaming(paths[k], tree[paths[k]], methodName)
                 ELSE <<>>])
      firsts == Ascending({n \in DOMAIN all :
                  \A j \in 1..(n - 1) : all[j].interfaceName # all[n].interfaceName})
  IN [k \in DOMAIN firsts |-> all[firsts[k]]]

findInterfaces(tree, directory, methodName) ==
  LET paths == WalkSources(directory)
  IN Concat([k \in DOMAIN paths |->
               IF Readable(tree, paths[k]) /\ Parses(tree, paths[k])
                 THEN InterfacesNaming(paths[k], tree[paths[k]], methodName)
                 ELSE <<>>])

(***************************************************************************)
(* analyzePackageInterfaces (main.go 46-96).  order is the order in which  *)
(* `range interfaces` delivers the interface names.  Every value appended  *)
(* for an interface method is that method's own name, so the order of      *)
(* `range implementations` and of the receiver types inside                *)
(* findFileImplementations does not show in the result.                    *)
(***************************************************************************)
PackageInterfaces(tree, packagePath) ==
  LET files == Glob(packagePath)
  IN Concat([k \in DOMAIN files |-> findFileInterfaces(tree, files[k])])

PackageImplementations(tree, packagePath) ==
  LET files == Glob(packagePath)
  IN Concat([k \in DOMAIN files |->
       findFileImplementations(tree, files[k],
         CHOOSE o \in Orders(FileKeys(tree, files[k])) : TRUE)])

\* the keys of the map `interfaces`
PackageInterfaceNames(tree, packagePath) ==
  LET ifs == PackageInterfaces(tree, packagePath)
  IN {ifs[i].interfaceName : i \in DOMAIN ifs}

\* analyzePackageInterfaces matching an implementation only with the
\* interfaces of its own file.
analyzePackageInterfaces_SameFile(tree, packagePath, order) ==
  LET ifs == PackageInterfaces(tree, packagePath)
      impls == PackageImplementations(tree, packagePath)
      hit(i) == Ascending({j \in DOMAIN impls :
                  /\ impls[j].methodName = ifs[i].name
                  /\ impls[j].location.file = ifs[i].location.file})
      matched(i) == [k \in DOMAIN hit(i) |-> impls[hit(i)[k]].methodName]
      appended(interfaceName) ==
        Concat([i \in DOMAIN ifs |->
                  IF ifs[i].interfaceName = interfaceName THEN matched(i) ELSE <<>>])
      writers(m) == {k \in DOMAIN order : m \in Range(appended(order[k]))}
      keys == UNION {Range(appended(order[k])) : k \in DOMAIN order}
  IN [interfaceImplementations |->
        [n \in {order[k] : k \in {j \in DOMAIN order : appended(order[j]) # <<>>}}
           |-> appended(n)],
      methodToInterface |->
        [m \in keys |-> order[CHOOSE k \in writers(m) : \A j \in writers(m) : j <= k]]]

\* analyzePackageInterfaces that lists a method name under the first
\* interface that claims it only, while methodToInterface is still overwritten
\* by every later one.
analyzePackageInterfaces_FirstOwner(tree, packagePath, order) ==
  LET ifs == PackageInterfaces(tree, packagePath)
      impls == PackageImplementations(tree, packagePath)
      matched(i) == SelectSeq([j \in DOMAIN impls |-> impls[j].methodName],
                              LAMBDA n : n = ifs[i].name)
      appended(interfaceName) ==
        Concat([i \in DOMAIN ifs |->
                  IF ifs[i].interfaceName = interfaceName THEN matched(i) ELSE <<>>])
      owned(k) == SelectSeq(appended(order[k]),
                            LAMBDA n : \A j \in 1..(k - 1) : n \notin Range(appended(order[j])))
      writers(m) == {k \in DOMAIN order : m \in Range(appended(order[k]))}
      keys == UNION {Range(appended(order[k])) : k \in DOMAIN order}
  IN [interfaceImplementations |->
        [n \in {order[k] : k \in {j \in DOMAIN order : owned(j) # <<>>}}
           |-> owned(CHOOSE k \in DOMAIN order : order[k] = n)],
      methodToInterface |->
        [m \in keys |-> order[CHOOSE k \in writers(m) : \A j \in writers(m) : j <= k]]]

analyzePackageInterfaces(tree, packagePath, order) ==
  LET ifs == PackageInterfaces(tree, packagePath)
      impls == PackageImplementations(tree, packagePath)
      \* the values appended while `method` is ifs[i]
      matched(i) == SelectSeq([j \in DOMAIN impls |-> impls[j].methodName],
                              LAMBDA n : n = ifs[i].name)
      appended(interfaceName) ==
        Concat([i \in DOMAIN ifs |->
                  IF ifs[i].interfaceName = interfaceName THEN matched(i) ELSE <<>>])
      \* the position in order of the last interface that wrote key m
      writers(m) == {k \in DOMAIN order : m \in Range(appended(order[k]))}
      keys == UNION {Range(appended(order[k])) : k \in DOMAIN order}
  IN [interfaceImplementations |->
        [n \in {order[k] : k \in {j \in DOMAIN order : appended(order[j]) # <<>>}}
           |-> appended(n)],
      methodToInterface |->
        [m \in keys |-> order[CHOOSE k \in writers(m) : \A j \in writers(m) : j <= k]]]

(***************************************************************************)
(* encoding/json: a slice that was never appended to is nil and is written *)
(* as null, any other slice as an array.  The slices of this program are   *)
(* nil exactly when they are empty.                                        *)
(***************************************************************************)
Marshal(slice) == [null |-> Len(slice) = 0, elems |-> slice]

\* json.Marshal(AnalysisResult{...}): both fields are always written
AnalysisResult(interfaces, implementations) ==
  [interfaces |-> Marshal(interfaces), implementations |-> Marshal(implementations)]

(***************************************************************************)
(* main (main.go 98-155).  argv is os.Args[1:].                            *)
(***************************************************************************)
Commands ==
  {"find-implementations", "find-interfaces", "find-file-interfaces",
   "find-file-implementations", "analyze-package-interfaces"}
UnknownCommand == "find-all"

\* what the command is pointed at
TreeTargets == {Root, "w/sub", "w/vendor", "w/a.go", "w/vendor/v.go"}
FileTargets == Targets
PackageTargets == {Root, "w/sub"}

RECURSIVE SumLen(_, _)
SumLen(f, S) ==
  IF S = {} THEN 0
  ELSE LET x == CHOOSE y \in S : TRUE IN Len(f[x]) + SumLen(f, S \ {x})

TotalDecls == SumLen(fs, GoPaths)

PlainTree ==
  \A p \in GoPaths :
    IF p \in PlainPaths THEN \A i \in DOMAIN fs[p] : PlainDecl(fs[p][i])
    ELSE fs[p] = <<>>

\* no run of the command since the tree last changed
Idle == exit = -1

\* no call of isExactMatch is under observation
NoCall == <<>>

\* the documents an editor can show: the Go document and a text document
Document == "w/a.go"
EditorDocuments == {Document, TextPath}

\* the extension is not active: no editor, no run, no timer, no decoration
NoEditor == "none"
NoDecorations == [lines |-> {}, from |-> "none"]
NoJump == [command |-> "none", methodName |-> "", locations |-> <<>>, error |-> FALSE]
ExtensionIdle ==
  /\ editor = NoEditor
  /\ runs = <<>>
  /\ timers = <<>>
  /\ shown = [d \in EditorDocuments |-> [interface |-> NoDecorations,
                                  implementation |-> NoDecorations]]
  /\ jump = NoJump
  /\ log = [events |-> 0, background |-> 0, saves |-> 0]

Init ==
  /\ fs = [p \in GoPaths |-> <<>>]
  /\ argv = <<>>
  /\ exit = -1
  /\ stdout = <<>>
  /\ denied = {}
  /\ call = NoCall
  /\ ExtensionIdle

\* The tree is written before the command is run against it: a declaration
\* is appended to a file.
WriteDecl(p, d) ==
  /\ fs' = [fs EXCEPT ![p] = Append(@, d)]
  /\ UNCHANGED <<argv, exit, stdout, denied, call, ext>>

\* The permissions of a file or a directory are taken away: os.ReadFile of
\* the file, the reading of the directory's entries, fails from then on.
Deny(p) ==
  /\ denied' = denied \cup {p}
  /\ UNCHANGED <<fs, argv, exit, stdout, call, ext>>

\* The command is started on a tree it has not been run against, or the last
\* command is run once more.
Start(args) == Idle \/ argv = args

\* len(os.Args) < 3 (99-103)
Usage(args) ==
  /\ Len(args) < 2
  /\ Start(args)
  /\ argv' = args
  /\ exit' = 1
  /\ stdout' = <<>>
  /\ UNCHANGED <<fs, denied, call, ext>>

\* find-implementations or find-interfaces without a method name (110-113,
\* 121-124)
MissingMethodName(command, target) ==
  /\ Start(<<command, target>>)
  /\ argv' = <<command, target>>
  /\ exit' = 1
  /\ stdout' = <<>>
  /\ UNCHANGED <<fs, denied, call, ext>>

\* an unknown verb that ends like an analysis that found nothing
Unknown_Exit0(target) ==
  /\ Start(<<UnknownCommand, target>>)
  /\ argv' = <<UnknownCommand, target>>
  /\ exit' = 0
  /\ stdout' = << AnalysisResult(<<>>, <<>>) >>
  /\ UNCHANGED <<fs, denied, call, ext>>

\* default: (151-153)
Unknown(target) ==
  /\ Start(<<UnknownCommand, target>>)
  /\ argv' = <<UnknownCommand, target>>
  /\ exit' = 1
  /\ stdout' = <<>>
  /\ UNCHANGED <<fs, denied, call, ext>>

\* case "find-implementations" (109-118)
RunFindImplementations(target, methodName, order) ==
  /\ Start(<<"find-implementations", target, methodName>>)
  /\ argv' = <<"find-implementations", target, methodName>>
  /\ exit' = 0
  /\ stdout' = << AnalysisResult(<<>>, findImplementations(fs, target, methodName, order)) >>
  /\ UNCHANGED <<fs, denied, call, ext>>

\* case "find-interfaces" (120-129)
RunFindInterfaces(target, methodName) ==
  /\ Start(<<"find-interfaces", target, methodName>>)
  /\ argv' = <<"find-interfaces", target, methodName>>
  /\ exit' = 0
  /\ stdout' = << AnalysisResult(findInterfaces(fs, target, methodName), <<>>) >>
  /\ UNCHANGED <<fs, denied, call, ext>>

\* case "find-file-interfaces" (131-136)
RunFindFileInterfaces(target) ==
  /\ Start(<<"find-file-interfaces", target>>)
  /\ argv' = <<"find-file-interfaces", target>>
  /\ exit' = 0
  /\ stdout' = << AnalysisResult(findFileInterfaces(fs, target), <<>>) >>
  /\ UNCHANGED <<fs, denied, call, ext>>

\* case "find-file-implementations" (138-143)
RunFindFileImplementations(target, order) ==
  /\ Start(<<"find-file-implementations", target>>)
  /\ argv' = <<"find-file-implementations", target>>
  /\ exit' = 0
  /\ stdout' = << AnalysisResult(<<>>, findFileImplementations(fs, target, order)) >>
  /\ UNCHANGED <<fs, denied, call, ext>>

\* case "analyze-package-interfaces" (145-150)
RunAnalyzePackage(target, order) ==
  /\ Start(<<"analyze-package-interfaces", target>>)
  /\ argv' = <<"analyze-package-interfaces", target>>
  /\ exit' = 0
  /\ stdout' = << analyzePackageInterfaces(fs, target, order) >>
  /\ UNCHANGED <<fs, denied, call, ext>>

Next ==
  \/ /\ Idle
     /\ denied = {}
     /\ TotalDecls < MaxMixedDecls
     /\ \E p \in GoPaths, d \in Decls : WriteDecl(p, d)
  \/ /\ Idle
     /\ denied = {}
     /\ TotalDecls >= MaxMixedDecls
     /\ TotalDecls < MaxDecls
     /\ PlainTree
     /\ \E p \in PlainPaths, d \in PlainDecls : WriteDecl(p, d)
  \/ /\ Idle
     /\ Cardinality(denied) < MaxDenied
     /\ TotalDecls <= MaxMixedDecls
     /\ PlainTree
     /\ \E p \in GoPaths \cup Dirs : Deny(p)
  \/ \E args \in {<<>>, <<"find-implementations">>, <<UnknownCommand>>} :
       Usage(args)
  \/ \E command \in {"find-implementations", "find-interfaces"} :
       MissingMethodName(command, Root)
  \/ Unknown(Root)
  \/ \E target \in TreeTargets, methodName \in MethodNames :
       /\ Start(<<"find-implementations", target, methodName>>)
       /\ \E order \in Orders(TreeKeys(fs, target)) :
            RunFindImplementations(target, methodName, order)
  \/ \E target \in TreeTargets, methodName \in MethodNames :
       RunFindInterfaces(target, methodName)
  \/ \E target \in FileTargets : RunFindFileInterfaces(target)
  \/ \E target \in FileTargets :
       /\ Start(<<"find-file-implementations", target>>)
       /\ \E order \in Orders(FileKeys(fs, target)) :
            RunFindFileImplementations(target, order)
  \/ \E target \in PackageTargets :
       /\ Start(<<"analyze-package-interfaces", target>>)
       /\ \E order \in Orders(PackageInterfaceNames(fs, target)) :
            RunAnalyzePackage(target, order)

Spec == Init /\ [][Next]_vars

(***************************************************************************)
(* The package summary on its own: the two plain files of the root         *)
(* directory hold up to MaxPackageDecls plain declarations each, and the   *)
(* command is run on the root with analyze-package-interfaces.             *)
(***************************************************************************)
SeqsUpTo(S, n) == UNION {[1..k -> S] : k \in 0..n}

PackageTrees ==
  {[p \in GoPaths |-> IF p = "w/a.go" THEN x ELSE IF p = "w/z.go" THEN y ELSE <<>>] :
     x \in SeqsUpTo(PlainDecls, MaxPackageDecls),
     y \in SeqsUpTo(PlainDecls, MaxPackageDecls)}

InitPackage ==
  /\ fs \in PackageTrees
  /\ argv = <<>>
  /\ exit = -1
  /\ stdout = <<>>
  /\ denied = {}
  /\ call = NoCall
  /\ ExtensionIdle

NextPackage ==
  /\ Start(<<"analyze-package-interfaces", Root>>)
  /\ \E order \in Orders(PackageInterfaceNames(fs, Root)) :
       RunAnalyzePackage(Root, order)

SpecPackage == InitPackage /\ [][NextPackage]_vars

(***************************************************************************)
(* isExactMatch on its own: two calls whose arguments are lists of up to   *)
(* MaxNames method names, repetitions included.                            *)
(***************************************************************************)
NameLists == SeqsUpTo(MethodNames \cup {"C"}, MaxNames)

Pending(typeMethods, interfaceMethods) ==
  [typeMethods |-> typeMethods, interfaceMethods |-> interfaceMethods,
   result |-> "none"]

InitMatch ==
  /\ fs = [p \in GoPaths |-> <<>>]
  /\ argv = <<>>
  /\ exit = -1
  /\ stdout = <<>>
  /\ denied = {}
  /\ call \in {<<Pending(m1, i1), Pending(m2, i2)>> :
                 m1 \in NameLists, i1 \in NameLists,
                 m2 \in NameLists, i2 \in NameLists}
  /\ ExtensionIdle

\* call k is made
Match(k) ==
  /\ call[k].result = "none"
  /\ call' = [call EXCEPT ![k].result =
                IF isExactMatch(call[k].typeMethods, call[k].interfaceMethods)
                  THEN "true" ELSE "false"]
  /\ UNCHANGED <<fs, argv, exit, stdout, denied, ext>>

NextMatch == \E k \in 1..2 : Match(k)

SpecMatch == InitMatch /\ [][NextMatch]_vars

(***************************************************************************)
(* Vocabulary of the properties: what the tree holds, stated without the   *)
(* query operators.                                                        *)
(***************************************************************************)
\* the last run was `command`, with a target, and ended normally
Ran(command) == exit = 0 /\ Len(argv) >= 2 /\ argv[1] = command
Out == stdout[1]

\* path is a Go file that can be read and whose source parses
Loads(path) ==
  /\ path \in GoPaths
  /\ path \notin denied
  /\ \A i \in DOMAIN fs[path] : fs[path][i].kind # "bad"

\* a walk started at target meets a directory whose entries cannot be read
WalkFails(target) == \E d \in denied \cap Dirs : Under(d, target)

\* the declarations of a loaded file that declare an interface, a method
InterfacesIn(path) == {i \in DOMAIN fs[path] : fs[path][i].kind = "iface"}
MethodsIn(path) ==
  {i \in DOMAIN fs[path] : fs[path][i].kind = "func" /\ fs[path][i].recv.tag # "nil"}

\* the method names interface i of path lists explicitly
Listed(path, i) ==
  {fs[path][i].entries[k][1] : k \in NamedEntries(fs[path][i].entries)}

\* <<i, k>>: entry k of interface i of path names a method
NamedPairs(path) ==
  UNION {{<<i, k>> : k \in NamedEntries(fs[path][i].entries)} : i \in InterfacesIn(path)}

\* a comes no later than b in the source
Before(a, b) == a[1] < b[1] \/ (a[1] = b[1] /\ a[2] <= b[2])

\* the position of path in the lexical order of the walk
ScanIndex(path) == CHOOSE n \in DOMAIN AllFiles : AllFiles[n].path = path

\* the files a tree query started at target reads: the target itself when it
\* is a file, otherwise the files below it that lie in no vendor or hidden
\* directory; never a test file, never a file that does not parse
Scanned(target) ==
  {path \in GoPaths :
     /\ Loads(path)
     /\ ~HasSuffixTest(path)
     /\ \/ path = target
        \/ /\ Under(DirOf(path), target)
           /\ ~ContainsVendor(target) /\ ~HasPrefixDot(target)
           /\ ~ContainsVendor(DirOf(path)) /\ ~HasPrefixDot(DirOf(path))}

\* <<path, i>>: interface i of a scanned file lists methodName
ScannedInterfacesListing(target, methodName) ==
  UNION {{<<path, i>> : i \in {j \in InterfacesIn(path) : methodName \in Listed(path, j)}} :
           path \in Scanned(target)}

\* the receiver-type strings of the methods of path, the methods of one of
\* them, and their names
TypeKeysIn(path) == {getReceiverType(fs[path][i].recv) : i \in MethodsIn(path)}
MethodsOfIn(path, T) ==
  {i \in MethodsIn(path) : getReceiverType(fs[path][i].recv) = T}
NamesOfIn(path, T) == {fs[path][i].name : i \in MethodsOfIn(path, T)}

\* <<path, i>>: interface i of a parsable Go file in or below dir
DeclaredUnder(dir) ==
  UNION {{<<q, i>> : i \in InterfacesIn(q)} :
           q \in {r \in GoPaths : Loads(r) /\ Under(DirOf(r), dir)}}

\* those of them that list a method and stand in no test file
DiscoveredUnder(dir) ==
  {h \in DeclaredUnder(dir) : ~HasSuffixTest(h[1]) /\ Listed(h[1], h[2]) # {}}

\* the methods T declares in path cover the list of one of the candidates
SatisfiesSome(path, T, candidates) ==
  \E h \in candidates : Listed(h[1], h[2]) \subseteq NamesOfIn(path, T)

\* the output holds, for every type of path that satisfies a candidate, one
\* entry for each of its methods in path with the method's zero-based start
\* and end, and no entry for any other type
FileReport(path, candidates) ==
  LET out == Out.implementations.elems
  IN \A T \in TypeKeysIn(path) :
       LET mine == {n \in DOMAIN out : out[n].receiverType = T}
       IN IF SatisfiesSome(path, T, candidates)
            THEN /\ Cardinality(mine) = Cardinality(MethodsOfIn(path, T))
                 /\ \A i \in MethodsOfIn(path, T) :
                      \E n \in mine :
                        /\ out[n].methodName = fs[path][i].name
                        /\ out[n].location =
                             Location(path, FuncPos(fs[path], i).Line - 1,
                                      FuncPos(fs[path], i).Column - 1)
                        /\ out[n].endLocation =
                             Location(path, FuncEnd(fs[path], i).Line - 1,
                                      FuncEnd(fs[path], i).Column - 1)
            ELSE mine = {}

CollectedNames(target, T) ==
  UNION {NamesOfIn(path, T) : path \in Scanned(target)}

\* the first interface, in scan order, that lists methodName
FirstListing(target, methodName) ==
  LET hits == ScannedInterfacesListing(target, methodName)
  IN CHOOSE h \in hits :
       \A g \in hits : Before(<<ScanIndex(h[1]), h[2]>>, <<ScanIndex(g[1]), g[2]>>)

C3_TreeInterfaces ==
  (Ran("find-interfaces") /\ ~WalkFails(argv[2])) =>
    LET out == Out.interfaces.elems
        hits == ScannedInterfacesListing(argv[2], argv[3])
        at(h) == CHOOSE k \in NamedEntries(fs[h[1]][h[2]].entries) :
                   fs[h[1]][h[2]].entries[k][1] = argv[3]
    IN /\ Len(out) = Cardinality(hits)
       /\ \A n \in DOMAIN out : out[n].name = argv[3]
       /\ \A h \in hits :
            \E n \in DOMAIN out :
              /\ out[n].interfaceName = fs[h[1]][h[2]].name
              /\ out[n].location.file = h[1]
              /\ out[n].location.line = EntryPos(fs[h[1]], h[2], at(h)).Line - 1

\* two interfaces that share the method are both returned
C3_Witness ==
  /\ Ran("find-interfaces")
  /\ Cardinality(ScannedInterfacesListing(argv[2], argv[3])) = 2
  /\ Len(Out.interfaces.elems) = 2
  /\ \E path \in GoPaths \ Scanned(argv[2]) :
       Loads(path) /\ \E i \in InterfacesIn(path) : argv[3] \in Listed(path, i)

(***************************************************************************)
(* C4: find-file-interfaces returns, for every interface declaration of    *)
(* the file, one entry per explicitly named method, in declaration order,  *)
(* with the name of the declaring interface and the parser's line minus    *)
(* one; an embedded interface contributes no entry.                        *)
(***************************************************************************)
C4_FileInterfaces ==
  Ran("find-file-interfaces") =>
    LET out == Out.interfaces.elems
        path == argv[2]
    IN IF Loads(path)
         THEN LET pairs == NamedPairs(path)
                  rank(a) == Cardinality({b \in pairs : Before(b, a)})
              IN /\ Len(out) = Cardinality(pairs)
                 /\ \A a \in pairs :
                      /\ out[rank(a)].name = fs[path][a[1]].entries[a[2]][1]
                      /\ out[rank(a)].interfaceName = fs[path][a[1]].name
                      /\ out[rank(a)].location.file = path
                      /\ out[rank(a)].location.line =
                           EntryPos(fs[path], a[1], a[2]).Line - 1
         ELSE out = <<>>

\* an interface with an embedded entry before a named one, after another
\* declaration
C4_Witness ==
  /\ Ran("find-file-interfaces")
  /\ Loads(argv[2])
  /\ \E i \in InterfacesIn(argv[2]) :
       /\ i > 1
       /\ Len(fs[argv[2]][i].entries) = 2
       /\ Len(fs[argv[2]][i].entries[1]) = 0
       /\ Len(fs[argv[2]][i].entries[2]) > 0
  /\ Len(Out.interfaces.elems) >= 1

\* the parsable Go files of the package directory (the test files included)
PackageFiles(dir) == {path \in GoPaths : Loads(path) /\ DirOf(path) = dir}

\* <<path, i>>: interface i of a file of the package lists name m
PackageListing(dir, m) ==
  UNION {{<<q, j>> : j \in {k \in InterfacesIn(q) : m \in Listed(q, k)}} :
           q \in PackageFiles(dir)}

\* the names in the list the summary holds for interfaceName
Implemented(interfaceName) ==
  IF interfaceName \in DOMAIN Out.interfaceImplementations
    THEN Range(Out.interfaceImplementations[interfaceName]) ELSE {}

ReportedNames(dir) ==
  UNION {{fs[p][i].name :
            i \in {k \in MethodsIn(p) :
                     SatisfiesSome(p, getReceiverType(fs[p][k].recv),
                                   DiscoveredUnder(dir))}} :
           p \in PackageFiles(dir)}

ZeroBased(loc, pos) == loc.line = pos.Line - 1 /\ loc.column = pos.Column - 1

\* every entry of a list of interface methods, of implementations, stands at
\* the zero-based place of a declaration of its file
InterfaceEntriesZeroBased(out) ==
  \A n \in DOMAIN out :
    /\ out[n].location.file \in GoPaths
    /\ \E h \in NamedPairs(out[n].location.file) :
         ZeroBased(out[n].location, EntryPos(fs[out[n].location.file], h[1], h[2]))
ImplementationEntriesZeroBased(out) ==
  \A n \in DOMAIN out :
    /\ out[n].location.file \in GoPaths
    /\ \E i \in MethodsIn(out[n].location.file) :
         /\ ZeroBased(out[n].location, FuncPos(fs[out[n].location.file], i))
         /\ ZeroBased(out[n].endLocation, FuncEnd(fs[out[n].location.file], i))

(***************************************************************************)
(* C6: whatever the verb, the line and column of every location, and of    *)
(* every end location of an implementation, are the parser's one-based     *)
(* values less one.                                                        *)
(***************************************************************************)
C6_ZeroBasedEverywhere ==
  /\ Ran("find-file-interfaces") => InterfaceEntriesZeroBased(Out.interfaces.elems)
  /\ Ran("find-interfaces") => InterfaceEntriesZeroBased(Out.interfaces.elems)
  /\ Ran("find-file-implementations") =>
       ImplementationEntriesZeroBased(Out.implementations.elems)
  /\ Ran("find-implementations") =>
       ImplementationEntriesZeroBased(Out.implementations.elems)

(***************************************************************************)
(* C7: a command run again with the same arguments on the same tree        *)
(* writes the same line, the order of the entries and the values of        *)
(* methodToInterface included.                                             *)
(***************************************************************************)
C7_Deterministic ==
  [][(exit = 0 /\ exit' = 0 /\ argv' = argv /\ fs' = fs) => stdout' = stdout]_vars


(***************************************************************************)
(* C8: the command exits with a non-zero status only for missing           *)
(* arguments or an unknown verb, and then writes nothing to standard       *)
(* output; every analysis, whatever it finds and whatever its target,      *)
(* exits with status 0 and writes one line.                                *)
(***************************************************************************)
Malformed(args) ==
  \/ Len(args) < 2
  \/ args[1] \notin Commands
  \/ args[1] \in {"find-implementations", "find-interfaces"} /\ Len(args) < 3

C8_ExitStatus ==
  exit # -1 =>
    /\ exit \in {0, 1}
    /\ exit # 0 <=> Malformed(argv)
    /\ exit # 0 => stdout = <<>>
    /\ exit = 0 => Len(stdout) = 1

\* an analysis whose target cannot be read, and one whose target does not
\* parse, end with status 0 and one line
C8_Witness ==
  /\ exit = 0
  /\ Len(stdout) = 1
  /\ argv[1] = "find-file-implementations"
  /\ \/ argv[2] = MissingPath
     \/ argv[2] \in GoPaths /\ ~Loads(argv[2])

(***************************************************************************)
(* C9: find-implementations for a method name that no interface under the  *)
(* root declares writes {implementations: []}, an empty list and not null, *)
(* and exits with status 0.                                                *)
(***************************************************************************)
C9_EmptyListNotNull ==
  (/\ exit # -1
   /\ Len(argv) >= 3
   /\ argv[1] = "find-implementations"
   /\ ScannedInterfacesListing(argv[2], argv[3]) = {})
    => /\ exit = 0
       /\ Len(stdout) = 1
       /\ Out.implementations = [null |-> FALSE, elems |-> <<>>]

(***************************************************************************)
(* C10: find-implementations returns no implementation when no interface   *)
(* under the root declares the method name, whatever the types declare.    *)
(***************************************************************************)
C10_NoInterfaceNoImplementation ==
  (Ran("find-implementations") /\ ScannedInterfacesListing(argv[2], argv[3]) = {})
    => Out.implementations.elems = <<>>

\* a scanned type declares the method, beside an interface that lists
\* another method
C10_Witness ==
  /\ Ran("find-implementations")
  /\ ScannedInterfacesListing(argv[2], argv[3]) = {}
  /\ \E path \in Scanned(argv[2]) :
       /\ \E i \in MethodsIn(path) : fs[path][i].name = argv[3]
       /\ InterfacesIn(path) # {}
  /\ Out.implementations.elems = <<>>

\* the Go files that cannot be read or do not parse, and the tree without
\* a set of files
FaultyFiles == {path \in GoPaths : ~Loads(path)}
Without(tree, paths) == [p \in DOMAIN tree \ paths |-> tree[p]]

(***************************************************************************)
(* C11: a file that cannot be read or does not parse never aborts a tree   *)
(* or package query: the run ends with status 0 and writes what the same   *)
(* query writes for the tree without the faulty files.                     *)
(***************************************************************************)
C11_FileFaultsIgnored ==
  LET clean == Without(fs, FaultyFiles)
  IN /\ (exit # -1 /\ Len(argv) = 3
          /\ argv[1] \in {"find-interfaces", "find-implementations"}) => exit = 0
     /\ (exit # -1 /\ Len(argv) = 2
          /\ argv[1] = "analyze-package-interfaces") => exit = 0
     /\ Ran("find-interfaces") =>
          stdout = << AnalysisResult(findInterfaces(clean, argv[2], argv[3]), <<>>) >>
     /\ Ran("find-implementations") =>
          \E order \in Orders(TreeKeys(clean, argv[2])) :
            stdout = << AnalysisResult(<<>>,
                          findImplementations(clean, argv[2], argv[3], order)) >>
     /\ Ran("analyze-package-interfaces") =>
          \E order \in Orders(PackageInterfaceNames(clean, argv[2])) :
            stdout = << analyzePackageInterfaces(clean, argv[2], order) >>

\* a file that cannot be read holds an interface listing the method and is
\* met by the walk before a file whose interface is returned
C11_Witness ==
  /\ Ran("find-interfaces")
  /\ ~WalkFails(argv[2])
  /\ Out.interfaces.elems # <<>>
  /\ \E path \in denied \cap GoPaths :
       /\ \E i \in InterfacesIn(path) : argv[3] \in Listed(path, i)
       /\ ScanIndex(path) < ScanIndex(Out.interfaces.elems[1].location.file)
       /\ Under(DirOf(path), argv[2])

\* a directory below target, not target itself, cannot be read
SubdirectoryFails(target) ==
  \E d \in denied \cap Dirs : d # target /\ Under(d, target)

\* the files directly in directory dir that load and are no test files
ImmediateFiles(dir) ==
  {path \in GoPaths : Loads(path) /\ ~HasSuffixTest(path) /\ DirOf(path) = dir}

\* <<path, i>>: interface i of an immediate file of dir
ImmediateInterfaces(dir) ==
  UNION {{<<path, i>> : i \in InterfacesIn(path)} : path \in ImmediateFiles(dir)}

(***************************************************************************)
(* C12: when a directory below the root cannot be read, a query that scans *)
(* the root answers from the root's immediate files: find-interfaces       *)
(* returns the interfaces of those files that list the method, and         *)
(* find-file-implementations reports the types that cover an interface of  *)
(* the immediate files of the file's directory.                            *)
(***************************************************************************)
C12_WalkErrorFallsBack ==
  /\ (/\ Ran("find-interfaces")
      /\ argv[2] \in Dirs
      /\ argv[2] \notin denied
      /\ SubdirectoryFails(argv[2])) =>
       LET out == Out.interfaces.elems
           hits == {h \in ImmediateInterfaces(argv[2]) : argv[3] \in Listed(h[1], h[2])}
       IN /\ Len(out) = Cardinality(hits)
          /\ \A n \in DOMAIN out : out[n].location.file \in ImmediateFiles(argv[2])
  /\ (/\ Ran("find-file-implementations")
      /\ Loads(argv[2])
      /\ DirOf(argv[2]) \notin denied
      /\ SubdirectoryFails(DirOf(argv[2]))) =>
       FileReport(argv[2],
                  {h \in ImmediateInterfaces(DirOf(argv[2])) : Listed(h[1], h[2]) # {}})

\* path is a test file or lies in a vendor or hidden directory
Excluded(path) ==
  \/ HasSuffixTest(path)
  \/ ContainsVendor(DirOf(path))
  \/ HasPrefixDot(DirOf(path))

(***************************************************************************)
(* C13: no declaration of a test file or of a file in a vendor or hidden   *)
(* directory contributes to a query that scans a directory: the entries of *)
(* find-interfaces and find-implementations come from other files, every   *)
(* type find-file-implementations reports for a file that is not excluded  *)
(* covers an interface of a file that is not excluded, and every method    *)
(* that analyze-package-interfaces associates is declared, and listed by   *)
(* an interface, in a file that is not excluded.                           *)
(***************************************************************************)
C13_ExcludedFilesContributeNothing ==
  /\ (Ran("find-interfaces") /\ argv[2] \in Dirs) =>
       \A n \in DOMAIN Out.interfaces.elems :
         ~Excluded(Out.interfaces.elems[n].location.file)
  /\ (Ran("find-implementations") /\ argv[2] \in Dirs) =>
       \A n \in DOMAIN Out.implementations.elems :
         ~Excluded(Out.implementations.elems[n].location.file)
  /\ (Ran("find-file-implementations") /\ Loads(argv[2]) /\ ~Excluded(argv[2])) =>
       \A n \in DOMAIN Out.implementations.elems :
         SatisfiesSome(argv[2], Out.implementations.elems[n].receiverType,
                       {h \in DiscoveredUnder(DirOf(argv[2])) : ~Excluded(h[1])})
  /\ Ran("analyze-package-interfaces") =>
       \A m \in DOMAIN Out.methodToInterface :
         /\ \E p \in PackageFiles(argv[2]) :
              ~Excluded(p) /\ \E i \in MethodsIn(p) : fs[p][i].name = m
         /\ \E h \in PackageListing(argv[2], m) : ~Excluded(h[1])

\* the names of the methods of path declared with a receiver of the given
\* shape ("Ident": T, "StarIdent": *T) and type name
NamesOn(path, tag, name) ==
  {fs[path][i].name :
     i \in {j \in MethodsIn(path) :
              fs[path][j].recv.tag = tag /\ fs[path][j].recv.name = name}}
NamesOnScanned(target, tag, name) ==
  UNION {NamesOn(path, tag, name) : path \in Scanned(target)}

\* the entry stands for a method declaration of its file whose receiver is
\* a pointer exactly when the entry's receiver type carries the star;
\* `base` is 1 where the lines are reported one-based, 0 where zero-based
ReceiverShapeKept(entry, base) ==
  /\ entry.location.file \in GoPaths
  /\ \E i \in MethodsIn(entry.location.file) :
       LET d == fs[entry.location.file][i]
       IN /\ d.name = entry.methodName
          /\ entry.location.line = FuncPos(fs[entry.location.file], i).Line - 1 + base
          /\ d.recv.tag = "StarIdent" => entry.receiverType = "*" \o d.recv.name
          /\ d.recv.tag = "Ident" => entry.receiverType = d.recv.name

(***************************************************************************)
(* C14: the methods on *T and the methods on T are two method sets.  Every *)
(* entry of find-file-implementations and find-implementations carries     *)
(* "*T" when its declaration has a pointer receiver and "T" when it has a  *)
(* value receiver, and a type whose methods cover an interface only when   *)
(* the two sets are taken together is reported under neither name.         *)
(***************************************************************************)
C14_PointerAndValueApart ==
  /\ Ran("find-file-implementations") =>
       \A n \in DOMAIN Out.implementations.elems :
         ReceiverShapeKept(Out.implementations.elems[n], 0)
  /\ Ran("find-implementations") =>
       \A n \in DOMAIN Out.implementations.elems :
         ReceiverShapeKept(Out.implementations.elems[n], 1)
  /\ (Ran("find-file-implementations") /\ Loads(argv[2])) =>
       \A T \in TypeNames :
         (\A h \in DiscoveredUnder(DirOf(argv[2])) :
            /\ ~(Listed(h[1], h[2]) \subseteq NamesOn(argv[2], "Ident", T))
            /\ ~(Listed(h[1], h[2]) \subseteq NamesOn(argv[2], "StarIdent", T)))
         => \A n \in DOMAIN Out.implementations.elems :
              Out.implementations.elems[n].receiverType \notin {T, "*" \o T}
  /\ (/\ Ran("find-implementations")
      /\ ScannedInterfacesListing(argv[2], argv[3]) # {}) =>
       LET first == FirstListing(argv[2], argv[3])
           required == Listed(first[1], first[2])
       IN \A T \in TypeNames :
            (/\ ~(required \subseteq NamesOnScanned(argv[2], "Ident", T))
             /\ ~(required \subseteq NamesOnScanned(argv[2], "StarIdent", T)))
            => \A n \in DOMAIN Out.implementations.elems :
                 Out.implementations.elems[n].receiverType \notin {T, "*" \o T}

\* the methods of an interface are split between T and *T, and neither is
\* returned
C14_Witness ==
  /\ Ran("find-implementations")
  /\ ScannedInterfacesListing(argv[2], argv[3]) # {}
  /\ LET first == FirstListing(argv[2], argv[3])
         required == Listed(first[1], first[2])
     IN \E T \in TypeNames :
          /\ required \subseteq
               NamesOnScanned(argv[2], "Ident", T) \cup NamesOnScanned(argv[2], "StarIdent", T)
          /\ ~(required \subseteq NamesOnScanned(argv[2], "Ident", T))
          /\ ~(required \subseteq NamesOnScanned(argv[2], "StarIdent", T))
  /\ Out.implementations.elems = <<>>

(***************************************************************************)
(* C15: a method whose receiver is neither a named type nor a pointer to   *)
(* one has the empty receiver name and is not indexed: no entry of         *)
(* find-file-implementations or find-implementations carries the empty     *)
(* receiver type or stands for such a method.                              *)
(***************************************************************************)
C15_EmptyReceiverUnindexed ==
  (Ran("find-file-implementations") \/ Ran("find-implementations")) =>
    \A n \in DOMAIN Out.implementations.elems :
      LET entry == Out.implementations.elems[n]
      IN /\ entry.receiverType # ""
         /\ \A i \in MethodsIn(entry.location.file) :
              (/\ fs[entry.location.file][i].name = entry.methodName
               /\ entry.location.line \in
                    {FuncPos(fs[entry.location.file], i).Line - 1,
                     FuncPos(fs[entry.location.file], i).Line})
              => fs[entry.location.file][i].recv.tag # "Other"

\* <<path, i>>: interface i of a file of the package
PackageInterfaceDecls(dir) ==
  UNION {{<<q, j>> : j \in InterfacesIn(q)} : q \in PackageFiles(dir)}

(***************************************************************************)
(* C16: two interfaces of the same name declared in different files stay   *)
(* apart in the package summary: the methods listed under an interface     *)
(* name are all methods of one declaration of that name.                   *)
(***************************************************************************)
C16_SameNameNotMerged ==
  (/\ Ran("analyze-package-interfaces")
   /\ \A g, h \in PackageInterfaceDecls(argv[2]) :
        (g[1] = h[1] /\ fs[g[1]][g[2]].name = fs[h[1]][h[2]].name) => g = h) =>
    \A n \in DOMAIN Out.interfaceImplementations :
      \E h \in PackageInterfaceDecls(argv[2]) :
        /\ fs[h[1]][h[2]].name = n
        /\ Implemented(n) \subseteq Listed(h[1], h[2])

(***************************************************************************)
(* C17: in find-implementations the method set of a receiver type is the   *)
(* union of its methods over all scanned files: a type whose methods,      *)
(* taken over all files, cover the first interface that lists the method   *)
(* is returned, also when no single file holds them all.                   *)
(***************************************************************************)
C17_MethodsAcrossFiles ==
  (/\ Ran("find-implementations")
   /\ ~WalkFails(argv[2])
   /\ ScannedInterfacesListing(argv[2], argv[3]) # {}) =>
    LET first == FirstListing(argv[2], argv[3])
        required == Listed(first[1], first[2])
        returned == {Out.implementations.elems[n].receiverType :
                       n \in DOMAIN Out.implementations.elems}
    IN \A T \in TypeNames :
         /\ required \subseteq NamesOnScanned(argv[2], "Ident", T) => T \in returned
         /\ required \subseteq NamesOnScanned(argv[2], "StarIdent", T) =>
              ("*" \o T) \in returned

\* a returned type covers the interface only with its methods of two files
C17_Witness ==
  /\ Ran("find-implementations")
  /\ ScannedInterfacesListing(argv[2], argv[3]) # {}
  /\ LET first == FirstListing(argv[2], argv[3])
         required == Listed(first[1], first[2])
     IN \E T \in TypeNames :
          /\ required \subseteq NamesOnScanned(argv[2], "Ident", T)
          /\ \A path \in Scanned(argv[2]) : ~(required \subseteq NamesOn(path, "Ident", T))
          /\ \E n \in DOMAIN Out.implementations.elems :
               Out.implementations.elems[n].receiverType = T

\* a reported position is the parser's one-based position unchanged
OneBased(loc, pos) == loc.line = pos.Line /\ loc.column = pos.Column

\* the end locations of find-file-interfaces: the line after the method's
\* own line, zero-based, column 0
InterfaceEndsOnNextLine(out) ==
  \A n \in DOMAIN out :
    \E h \in NamedPairs(out[n].location.file) :
      /\ ZeroBased(out[n].location, EntryPos(fs[out[n].location.file], h[1], h[2]))
      /\ out[n].endLocation =
           Location(out[n].location.file,
                    (EntryPos(fs[out[n].location.file], h[1], h[2]).Line - 1) + 1, 0)

\* the end locations of the implementations: the end of the declaration, in
\* the zero-based or in the one-based reading of the parser's position
ImplementationEndsAtEnd(out) ==
  \A n \in DOMAIN out :
    \E i \in MethodsIn(out[n].location.file) :
      /\ fs[out[n].location.file][i].name = out[n].methodName
      /\ \/ /\ ZeroBased(out[n].location, FuncPos(fs[out[n].location.file], i))
            /\ ZeroBased(out[n].endLocation, FuncEnd(fs[out[n].location.file], i))
         \/ /\ OneBased(out[n].location, FuncPos(fs[out[n].location.file], i))
            /\ OneBased(out[n].endLocation, FuncEnd(fs[out[n].location.file], i))

(***************************************************************************)
(* C18: the end location of an interface method of find-file-interfaces is *)
(* the zero-based line after the method's line, column 0; the end location *)
(* of an implementation of find-file-implementations and of                *)
(* find-implementations is the position where the declaration ends.        *)
(***************************************************************************)
C18_EndLocations ==
  /\ Ran("find-file-interfaces") => InterfaceEndsOnNextLine(Out.interfaces.elems)
  /\ Ran("find-file-implementations") =>
       ImplementationEndsAtEnd(Out.implementations.elems)
  /\ Ran("find-implementations") =>
       ImplementationEndsAtEnd(Out.implementations.elems)

FoundFrom(root, entry) ==
  LET found == findInterfaces(fs, root, entry.name)
  IN \E k \in DOMAIN found :
       /\ found[k].name = entry.name
       /\ found[k].interfaceName = entry.interfaceName
       /\ found[k].location = entry.location

\* the directories that contain path
RootsOf(path) == {d \in Dirs : Under(DirOf(path), d)}

C27_SummaryConsistent ==
  Ran("analyze-package-interfaces") =>
    /\ \A m \in DOMAIN Out.methodToInterface :
         /\ m \in Implemented(Out.methodToInterface[m])
         /\ \E h \in PackageListing(argv[2], m) :
              fs[h[1]][h[2]].name = Out.methodToInterface[m]
    /\ \A n \in DOMAIN Out.interfaceImplementations :
         \A m \in Implemented(n) :
           \E h \in PackageListing(argv[2], m) : fs[h[1]][h[2]].name = n
    /\ DOMAIN Out.methodToInterface =
         UNION {Implemented(n) : n \in DOMAIN Out.interfaceImplementations}

\* one method name stands in the lists of two interfaces, and methodToInterface
\* gives one of the two
C27_Witness ==
  /\ Ran("analyze-package-interfaces")
  /\ \E m \in DOMAIN Out.methodToInterface :
       \E n \in DOMAIN Out.interfaceImplementations :
         /\ n # Out.methodToInterface[m]
         /\ m \in Implemented(n)
         /\ m \in Implemented(Out.methodToInterface[m])

\* <<path, i>>: interface i of a parsable Go file in or below dir that lists
\* at least one method by name
NamingUnder(dir) == {h \in DeclaredUnder(dir) : Listed(h[1], h[2]) # {}}

\* the names of the methods declared on receiver-type string T anywhere in
\* the tree
NamesAnywhere(T) ==
  UNION {NamesOfIn(path, T) : path \in {q \in GoPaths : Loads(q)}}

(***************************************************************************)
(* C29: an interface that lists no method by name (an empty interface, or  *)
(* one that only embeds) makes no type an implementation: every type       *)
(* find-file-implementations reports covers, by its methods in the file,   *)
(* an interface in or below the directory that lists a method by name, and *)
(* every type find-implementations reports covers, by its methods in the   *)
(* tree, a scanned interface that lists the method asked for.              *)
(***************************************************************************)
C29_UnnamedInterfaceNeverCounts ==
  /\ (Ran("find-file-implementations") /\ Loads(argv[2])) =>
       \A n \in DOMAIN Out.implementations.elems :
         SatisfiesSome(argv[2], Out.implementations.elems[n].receiverType,
                       NamingUnder(DirOf(argv[2])))
  /\ Ran("find-implementations") =>
       \A n \in DOMAIN Out.implementations.elems :
         \E h \in ScannedInterfacesListing(argv[2], argv[3]) :
           Listed(h[1], h[2]) \subseteq
             NamesAnywhere(Out.implementations.elems[n].receiverType)

\* the file holds an interface without a named method and a type with a
\* method; the subset check accepts the type against the empty list, and the
\* type is not reported
C29_Witness ==
  /\ Ran("find-file-implementations")
  /\ Loads(argv[2])
  /\ \E i \in InterfacesIn(argv[2]) : Listed(argv[2], i) = {}
  /\ \E T \in TypeKeysIn(argv[2]) :
       isExactMatch(FileTypeMethods(fs[argv[2]], T), <<>>)
  /\ Out.implementations.elems = <<>>

\* the vendor and hidden directories hold no declaration
NoExcludedDeclarations ==
  \A p \in GoPaths :
    (ContainsVendor(DirOf(p)) \/ HasPrefixDot(DirOf(p))) => fs[p] = <<>>

\* find-file-implementations on the file of the entry reports the entry's
\* method on the entry's receiver type, whatever the order of its map
FileReports(entry) ==
  \A order \in Orders(FileKeys(fs, entry.location.file)) :
    LET found == findFileImplementations(fs, entry.location.file, order)
    IN \E k \in DOMAIN found :
         /\ found[k].receiverType = entry.receiverType
         /\ found[k].methodName = entry.methodName

\* the entries of find-implementations on a directory whose method is
\* declared in a file that lies directly in that directory
DirectEntries ==
  {n \in DOMAIN Out.implementations.elems :
     /\ Out.implementations.elems[n].location.file \in GoPaths
     /\ DirOf(Out.implementations.elems[n].location.file) = argv[2]}

(***************************************************************************)
(* C28 as stated: the two implementation queries agree.  When              *)
(* find-implementations on a directory without vendor or hidden content    *)
(* reports a receiver type with its method declared in a file directly in  *)
(* the directory, find-file-implementations on that file reports the       *)
(* method of that type as well.                                            *)
(***************************************************************************)
C28_QueriesAgree ==
  (/\ Ran("find-implementations")
   /\ argv[2] \in Dirs
   /\ NoExcludedDeclarations) =>
    \A n \in DirectEntries : FileReports(Out.implementations.elems[n])

(***************************************************************************)
(* C28 amended: the file query follows the tree query for the types whose  *)
(* methods in the file alone cover the list of the first interface, in     *)
(* scan order, that lists the method.                                      *)
(***************************************************************************)
C28_AgreeWhenFileCovers ==
  (/\ Ran("find-implementations")
   /\ argv[2] \in Dirs
   /\ NoExcludedDeclarations) =>
    \A n \in DirectEntries :
      LET entry == Out.implementations.elems[n]
          first == FirstListing(argv[2], argv[3])
      IN Listed(first[1], first[2]) \subseteq
           NamesOfIn(entry.location.file, entry.receiverType)
         => FileReports(entry)

\* the tree query reports a type whose two methods stand in one file of the
\* directory, for an interface declared in another file
C28_Witness ==
  /\ Ran("find-implementations")
  /\ argv[2] \in Dirs
  /\ NoExcludedDeclarations
  /\ \E n \in DirectEntries :
       LET entry == Out.implementations.elems[n]
           first == FirstListing(argv[2], argv[3])
       IN /\ Listed(first[1], first[2]) \subseteq
               NamesOfIn(entry.location.file, entry.receiverType)
          /\ Cardinality(NamesOfIn(entry.location.file, entry.receiverType)) = 2
          /\ first[1] # entry.location.file
          /\ FileReports(entry)

(***************************************************************************)
(* The editor extension (src/extension.ts).  One Go document, w/a.go, is   *)
(* edited next to a text document; the extension runs the analyzer as a    *)
(* child process on the files on disk.  A call of provideCodeLenses is a   *)
(* run: it awaits three analyzer processes, starts the two decoration      *)
(* updates without awaiting them and returns its lenses; a decoration      *)
(* update awaits its own processes and then sets the decorations of the    *)
(* active editor.                                                          *)
(***************************************************************************)
\* Bounds of the extension: the calls of provideCodeLenses, the change
\* events on the active Go document, and the saves of the document.
MaxRuns == 2
MaxEvents == 1
MaxSaves == 1

\* document.languageId === 'go'
IsGo(d) == d \in GoPaths

MethodOn(m) ==
  [kind |-> "func", name |-> m, entries |-> <<>>,
   recv |-> [tag |-> "Ident", name |-> "T"]]
InterfaceOf(n, ms) ==
  [kind |-> "iface", name |-> n, entries |-> [k \in DOMAIN ms |-> <<ms[k]>>],
   recv |-> NoRecv]

\* what the Go document holds on disk
Contents ==
  { <<>>,
    << InterfaceOf("I", <<"A">>) >>,
    << MethodOn("A"), InterfaceOf("I", <<"A">>) >>,
    << InterfaceOf("I", <<"A">>), InterfaceOf("J", <<"B", "C">>),
       MethodOn("A"), MethodOn("B") >> }

ExtensionTrees ==
  {[p \in GoPaths |-> IF p = Document THEN c ELSE <<>>] : c \in Contents}

\* the extension as the document is opened, whatever the document holds
Opened ==
  /\ fs \in ExtensionTrees
  /\ argv = <<>>
  /\ exit = -1
  /\ stdout = <<>>
  /\ denied = {}
  /\ call = NoCall
  /\ editor = Document
  /\ runs = <<>>
  /\ timers = <<>>
  /\ shown = [d \in EditorDocuments |-> [interface |-> NoDecorations,
                                         implementation |-> NoDecorations]]
  /\ jump = NoJump
  /\ log = [events |-> 0, background |-> 0, saves |-> 0]

\* How a child process ends: it writes its line and exits with status 0, it
\* fails (it cannot be started, or exits with another status), or what it
\* wrote is not JSON.
Endings == {"ok", "error", "garbage"}

\* cp.exec(command, callback): the arguments of the callback
Exec(line, ending) ==
  [error |-> ending = "error",
   valid |-> ending = "ok",
   json |-> IF ending = "ok" THEN line ELSE <<>>]

Resolved(value) == [state |-> "resolved", value |-> value]
Rejected == [state |-> "rejected", value |-> <<>>]

\* result.interfaces || [] : null and a missing field become the empty list
OrEmpty(field) == IF field.null THEN <<>> ELSE field.elems

\* analyzePackageInterfaces that rejects when the process fails
GoInterfaceCodeLensProvider_analyzePackageInterfaces_Reject(result) ==
  IF result.error THEN Rejected
  ELSE IF ~result.valid THEN Resolved({})
  ELSE Resolved(DOMAIN result.json.methodToInterface)

\* GoInterfaceCodeLensProvider.analyzePackageInterfaces (166-185).  The
\* callers only test methodToInterface[name] for truth, and every value is a
\* non-empty interface name: the keys of methodToInterface are kept.
GoInterfaceCodeLensProvider_analyzePackageInterfaces(result) ==
  IF result.error THEN Resolved({})
  ELSE IF ~result.valid THEN Resolved({})
  ELSE Resolved(DOMAIN result.json.methodToInterface)

\* GoInterfaceCodeLensProvider.analyzeFileInterfaces (187-216)
analyzeFileInterfaces(result) ==
  IF result.error THEN Resolved(<<>>)
  ELSE IF ~result.valid THEN Resolved(<<>>)
  ELSE Resolved(OrEmpty(result.json.interfaces))

\* GoInterfaceCodeLensProvider.analyzeFileImplementations (220-245)
analyzeFileImplementations(result) ==
  IF result.error THEN Resolved(<<>>)
  ELSE IF ~result.valid THEN Resolved(<<>>)
  ELSE Resolved(OrEmpty(result.json.implementations))

\* findImplementationsWithAST (507-532)
findImplementationsWithAST(result) ==
  IF result.error THEN Resolved(<<>>)
  ELSE IF ~result.valid THEN Resolved(<<>>)
  ELSE Resolved(OrEmpty(result.json.implementations))

\* findInterfacesWithAST (534-559)
findInterfacesWithAST(result) ==
  IF result.error THEN Resolved(<<>>)
  ELSE IF ~result.valid THEN Resolved(<<>>)
  ELSE Resolved(OrEmpty(result.json.interfaces))

\* The line each analyzer command writes for the files now on disk.  The
\* order in which the analyzer walks its maps does not show in what the
\* extension takes from the line (sets of lines, the keys of a map).
PackageLine(dir) ==
  analyzePackageInterfaces(fs, dir,
    CHOOSE o \in Orders(PackageInterfaceNames(fs, dir)) : TRUE)
FileInterfacesLine(d) == AnalysisResult(findFileInterfaces(fs, d), <<>>)
FileImplementationsLine(d) ==
  AnalysisResult(<<>>, findFileImplementations(fs, d,
                         CHOOSE o \in Orders(FileKeys(fs, d)) : TRUE))

\* a decoration update: where it stands, the keys of its package analysis,
\* the list its last process returned, the lines it computed and whether it
\* called setDecorations
NoTask ==
  [pc |-> "idle", package |-> {}, out |-> <<>>, computed |-> {}, applied |-> FALSE]

\* provideCodeLenses past its language test, at the await of line 63; failed
\* tells whether a process the run awaited did not end well
NewRun(document, cause) ==
  [document |-> document, cause |-> cause,
   pc |-> IF IsGo(document) THEN "package" ELSE "returned",
   package |-> {}, interfaces |-> <<>>, codeLenses |-> <<>>,
   failed |-> FALSE,
   interfaceTask |-> NoTask, implementationTask |-> NoTask]

\* the lenses of lines 76-101
InterfaceLenses(interfaces) ==
  [k \in DOMAIN interfaces |->
     [title |-> "implementations",
      command |-> "goInterfaceNavigator.findImplementations",
      argument |-> interfaces[k].name,
      line |-> interfaces[k].location.line]]
ImplementationLenses(implementations, package) ==
  LET idx == Ascending({k \in DOMAIN implementations :
                          implementations[k].methodName \in package})
  IN [n \in DOMAIN idx |->
        [title |-> "interface implementation",
         command |-> "goInterfaceNavigator.findInterface",
         argument |-> implementations[idx[n]].methodName,
         line |-> implementations[idx[n]].location.line]]

\* the decorations of lines 147-157 and of lines 257-268: the lines
InterfaceDecorations(interfaces) ==
  {interfaces[k].location.line : k \in DOMAIN interfaces}
ImplementationDecorations(implementations, package) ==
  {implementations[k].location.line :
     k \in {j \in DOMAIN implementations : implementations[j].methodName \in package}}

\* at the start of an editing session the document holds an interface, or
\* an interface and a method that implements it
InitExtension ==
  /\ Opened
  /\ Len(fs[Document]) \in 1..2

analyzer == <<argv, exit, stdout, denied, call>>

\* The document is written to disk with new content.
Save(ds) ==
  /\ log.saves < MaxSaves
  /\ ds # fs[Document]
  /\ fs' = [fs EXCEPT ![Document] = ds]
  /\ log' = [log EXCEPT !.saves = @ + 1]
  /\ UNCHANGED <<analyzer, editor, runs, timers, shown, jump>>

\* provideCodeLenses(document) is called (55-63)
Call(document, cause) == Append(runs, NewRun(document, cause))

\* vscode asks the registered provider for the lenses of the document (305)
RequestCodeLenses ==
  /\ Len(runs) < MaxRuns
  /\ editor = Document
  /\ runs' = Call(Document, "request")
  /\ UNCHANGED <<fs, analyzer, editor, timers, shown, jump, log>>

\* onDidChangeActiveTextEditor: both handlers (309-314, 319-324) call
\* provideCodeLenses for a Go document.
ChangeActiveTextEditor(e) ==
  /\ e # editor
  /\ IsGo(e) => Len(runs) + 2 <= MaxRuns
  /\ editor' = e
  /\ runs' = IF IsGo(e) THEN Append(Call(e, "editor"), NewRun(e, "editor"))
             ELSE runs
  /\ UNCHANGED <<fs, analyzer, timers, shown, jump, log>>

\* onDidChangeTextDocument for the Go document: the first handler (328-336)
\* sets a timeout when the document is the active editor's, the second
\* (340-347) whenever the document is a Go document.
ChangeTextDocument ==
  /\ log.events + log.background < MaxEvents
  /\ timers' = timers \o (IF editor = Document THEN <<Document>> ELSE <<>>)
                      \o (IF IsGo(Document) THEN <<Document>> ELSE <<>>)
  /\ log' = IF editor = Document THEN [log EXCEPT !.events = @ + 1]
            ELSE [log EXCEPT !.background = @ + 1]
  /\ UNCHANGED <<fs, analyzer, editor, runs, shown, jump>>

\* a timeout expires, 500 ms after it was set: the callback (332-334,
\* 343-345) calls provideCodeLenses
Timeout ==
  /\ timers # <<>>
  /\ Len(runs) < MaxRuns
  /\ runs' = Call(Head(timers), "timer")
  /\ timers' = Tail(timers)
  /\ UNCHANGED <<fs, analyzer, editor, shown, jump, log>>

\* line 63: the package analysis of the run ends.  The await stands before
\* the try block, so a rejection leaves provideCodeLenses as an exception.
AwaitPackage(r, ending) ==
  /\ runs[r].pc = "package"
  /\ LET settled == GoInterfaceCodeLensProvider_analyzePackageInterfaces(
                      Exec(PackageLine(DirOf(runs[r].document)), ending))
     IN runs' = [runs EXCEPT ![r] =
                   IF settled.state = "rejected" THEN [@ EXCEPT !.pc = "threw"]
                   ELSE [@ EXCEPT !.pc = "interfaces", !.package = settled.value,
                                  !.failed = @ \/ ending # "ok"]]
  /\ UNCHANGED <<fs, analyzer, editor, timers, shown, jump, log>>

\* line 67; a rejection is caught at 102 and the lenses so far are returned
AwaitInterfaces(r, ending) ==
  /\ runs[r].pc = "interfaces"
  /\ LET settled == analyzeFileInterfaces(
                      Exec(FileInterfacesLine(runs[r].document), ending))
     IN runs' = [runs EXCEPT ![r] =
                   IF settled.state = "rejected" THEN [@ EXCEPT !.pc = "returned"]
                   ELSE [@ EXCEPT !.pc = "implementations",
                                  !.interfaces = settled.value,
                                  !.failed = @ \/ ending # "ok"]]
  /\ UNCHANGED <<fs, analyzer, editor, timers, shown, jump, log>>

\* lines 68-107: the implementations arrive, the two decoration updates are
\* started (each runs up to its first await) and the lenses are returned
AwaitImplementations(r, ending) ==
  /\ runs[r].pc = "implementations"
  /\ LET settled == analyzeFileImplementations(
                      Exec(FileImplementationsLine(runs[r].document), ending))
     IN runs' = [runs EXCEPT ![r] =
                   IF settled.state = "rejected" THEN [@ EXCEPT !.pc = "returned"]
                   ELSE [@ EXCEPT
                           !.pc = "returned",
                           !.failed = @ \/ ending # "ok",
                           !.codeLenses =
                              InterfaceLenses(runs[r].interfaces) \o
                              ImplementationLenses(settled.value, runs[r].package),
                           !.interfaceTask = [NoTask EXCEPT !.pc = "exec"],
                           !.implementationTask = [NoTask EXCEPT !.pc = "package"]]]
  /\ UNCHANGED <<fs, analyzer, editor, timers, shown, jump, log>>

\* addInterfaceDecorations, line 142: the process of the update reads the
\* file and ends; its callback has not run yet
InterfaceProcess(r, ending) ==
  /\ runs[r].interfaceTask.pc = "exec"
  /\ LET settled == analyzeFileInterfaces(
                      Exec(FileInterfacesLine(runs[r].document), ending))
     IN runs' = [runs EXCEPT ![r].interfaceTask =
                   IF settled.state = "rejected" THEN [@ EXCEPT !.pc = "failed"]
                   ELSE [@ EXCEPT !.pc = "callback", !.out = settled.value]]
  /\ UNCHANGED <<fs, analyzer, editor, timers, shown, jump, log>>

\* lines 160-161 and 271-272: there is an active editor and its document is
\* the analysed document
ApplyTo(document) ==
  editor \in EditorDocuments /\ editor = document

\* addInterfaceDecorations, lines 143-163
InterfaceCallback(r) ==
  /\ runs[r].interfaceTask.pc = "callback"
  /\ LET interfaces == runs[r].interfaceTask.out
         decorations == InterfaceDecorations(interfaces)
         apply == Len(interfaces) # 0 /\ ApplyTo(runs[r].document)
     IN /\ runs' = [runs EXCEPT ![r].interfaceTask =
                      [@ EXCEPT !.pc = "done", !.computed = decorations,
                                !.applied = apply]]
        /\ shown' = IF apply
                      THEN [shown EXCEPT ![editor].interface =
                              [lines |-> decorations, from |-> runs[r].document]]
                      ELSE shown
  /\ UNCHANGED <<fs, analyzer, editor, timers, jump, log>>

\* addImplementationDecorations, lines 251-252
ImplementationPackage(r, ending) ==
  /\ runs[r].implementationTask.pc = "package"
  /\ LET settled == GoInterfaceCodeLensProvider_analyzePackageInterfaces(
                      Exec(PackageLine(DirOf(runs[r].document)), ending))
     IN runs' = [runs EXCEPT ![r].implementationTask =
                   IF settled.state = "rejected" THEN [@ EXCEPT !.pc = "failed"]
                   ELSE [@ EXCEPT !.pc = "exec", !.package = settled.value]]
  /\ UNCHANGED <<fs, analyzer, editor, timers, shown, jump, log>>

\* line 253: the process reads the file and ends
ImplementationProcess(r, ending) ==
  /\ runs[r].implementationTask.pc = "exec"
  /\ LET settled == analyzeFileImplementations(
                      Exec(FileImplementationsLine(runs[r].document), ending))
     IN runs' = [runs EXCEPT ![r].implementationTask =
                   IF settled.state = "rejected" THEN [@ EXCEPT !.pc = "failed"]
                   ELSE [@ EXCEPT !.pc = "callback", !.out = settled.value]]
  /\ UNCHANGED <<fs, analyzer, editor, timers, shown, jump, log>>

\* lines 254-274
ImplementationCallback(r) ==
  /\ runs[r].implementationTask.pc = "callback"
  /\ LET implementations == runs[r].implementationTask.out
         decorations == ImplementationDecorations(implementations,
                                                  runs[r].implementationTask.package)
         apply == Len(implementations) # 0 /\ ApplyTo(runs[r].document)
     IN /\ runs' = [runs EXCEPT ![r].implementationTask =
                      [@ EXCEPT !.pc = "done", !.computed = decorations,
                                !.applied = apply]]
        /\ shown' = IF apply
                      THEN [shown EXCEPT ![editor].implementation =
                              [lines |-> decorations, from |-> runs[r].document]]
                      ELSE shown
  /\ UNCHANGED <<fs, analyzer, editor, timers, jump, log>>

\* new vscode.Position(line, character) throws for a negative argument
ValidPosition(location) == location.line >= 0 /\ location.column >= 0

\* what a navigation command hands to the editor (397-400, 474-477): the
\* reported line less one, the reported column
Locations(found) ==
  [k \in DOMAIN found |->
     Location(found[k].location.file, found[k].location.line - 1,
              found[k].location.column)]

Navigation(command, methodName, found) ==
  LET locations == Locations(found)
      thrown == \E k \in DOMAIN locations : ~ValidPosition(locations[k])
  IN [command |-> command, methodName |-> methodName,
      locations |-> IF thrown THEN <<>> ELSE locations,
      error |-> thrown]

\* goInterfaceNavigator.findImplementations (351-425), called with the
\* method name from a lens of the active Go document; the workspace folder
\* is the root of the tree.  With one location the document is shown, and
\* it is the document that is active already.
findImplementationsCommand(methodName, ending) ==
  /\ editor = Document
  /\ LET line == AnalysisResult(<<>>,
                   findImplementations(fs, Root, methodName,
                     CHOOSE o \in Orders(TreeKeys(fs, Root)) : TRUE))
         settled == findImplementationsWithAST(Exec(line, ending))
     IN jump' = Navigation("findImplementations", methodName, settled.value)
  /\ UNCHANGED <<fs, analyzer, editor, runs, timers, shown, log>>

\* goInterfaceNavigator.findInterface (428-502)
findInterfaceCommand(methodName, ending) ==
  /\ editor = Document
  /\ LET line == AnalysisResult(findInterfaces(fs, Root, methodName), <<>>)
         settled == findInterfacesWithAST(Exec(line, ending))
     IN jump' = Navigation("findInterface", methodName, settled.value)
  /\ UNCHANGED <<fs, analyzer, editor, runs, timers, shown, log>>

NavigationNames == {"A", "B"}

\* the steps of the runs, every process ending as `ending` allows
Steps(endings) ==
  \E r \in DOMAIN runs :
    \/ \E ending \in endings : AwaitPackage(r, ending)
    \/ \E ending \in endings : AwaitInterfaces(r, ending)
    \/ \E ending \in endings : AwaitImplementations(r, ending)
    \/ \E ending \in endings : InterfaceProcess(r, ending)
    \/ InterfaceCallback(r)
    \/ \E ending \in endings : ImplementationPackage(r, ending)
    \/ \E ending \in endings : ImplementationProcess(r, ending)
    \/ ImplementationCallback(r)

NextExtension ==
  \/ \E ds \in Contents : Save(ds)
  \/ RequestCodeLenses
  \/ \E e \in EditorDocuments : ChangeActiveTextEditor(e)
  \/ ChangeTextDocument
  \/ Timeout
  \/ Steps({"ok"})

SpecExtension == InitExtension /\ [][NextExtension]_vars

(***************************************************************************)
(* The navigation commands on their own: the Go document holds up to       *)
(* MaxPackageDecls plain declarations and a command is called from it.     *)
(***************************************************************************)
NavigationTrees ==
  {[p \in GoPaths |-> IF p = Document THEN x ELSE <<>>] :
     x \in SeqsUpTo(PlainDecls, MaxPackageDecls)}

InitNavigation ==
  /\ fs \in NavigationTrees
  /\ argv = <<>>
  /\ exit = -1
  /\ stdout = <<>>
  /\ denied = {}
  /\ call = NoCall
  /\ editor = Document
  /\ runs = <<>>
  /\ timers = <<>>
  /\ shown = [d \in EditorDocuments |-> [interface |-> NoDecorations,
                                 implementation |-> NoDecorations]]
  /\ jump = NoJump
  /\ log = [events |-> 0, background |-> 0, saves |-> 0]

NextNavigation ==
  \/ \E methodName \in NavigationNames : findImplementationsCommand(methodName, "ok")
  \/ \E methodName \in NavigationNames : findInterfaceCommand(methodName, "ok")

SpecNavigation == InitNavigation /\ [][NextNavigation]_vars

(***************************************************************************)
(* The extension with failing processes: one call of provideCodeLenses and *)
(* the navigation commands, every child process ending in any way.         *)
(***************************************************************************)
FirstRequest == runs = <<>> /\ RequestCodeLenses

NextFaults ==
  \/ FirstRequest
  \/ Steps(Endings)
  \/ \E methodName \in NavigationNames, ending \in Endings :
       findImplementationsCommand(methodName, ending)
  \/ \E methodName \in NavigationNames, ending \in Endings :
       findInterfaceCommand(methodName, ending)

SpecFaults == Opened /\ [][NextFaults]_vars

\* the location lies on the zero-based line of an entry of an interface of
\* its file that names the method
OnInterfaceMethod(location, methodName) ==
  /\ location.file \in GoPaths
  /\ \E h \in NamedPairs(location.file) :
       /\ fs[location.file][h[1]].entries[h[2]][1] = methodName
       /\ location.line = EntryPos(fs[location.file], h[1], h[2]).Line - 1

\* the location lies on the zero-based line on which a method of that name
\* is declared in its file
OnMethodDeclaration(location, methodName) ==
  /\ location.file \in GoPaths
  /\ \E i \in MethodsIn(location.file) :
       /\ fs[location.file][i].name = methodName
       /\ location.line = FuncPos(fs[location.file], i).Line - 1

(***************************************************************************)
(* C22: both navigation commands jump to the declaration.  Every location  *)
(* goInterfaceNavigator.findInterface hands to the editor lies on the      *)
(* zero-based line on which an interface declares the method, every        *)
(* location of goInterfaceNavigator.findImplementations on the zero-based  *)
(* line on which the implementing method is declared, and no line handed   *)
(* to the editor is negative.                                              *)
(***************************************************************************)
C22_NavigationJumpsToDeclaration ==
  /\ ~jump.error
  /\ \A k \in DOMAIN jump.locations : jump.locations[k].line >= 0
  /\ jump.command = "findInterface" =>
       \A k \in DOMAIN jump.locations :
         OnInterfaceMethod(jump.locations[k], jump.methodName)
  /\ jump.command = "findImplementations" =>
       \A k \in DOMAIN jump.locations :
         OnMethodDeclaration(jump.locations[k], jump.methodName)

\* <<path, i>>: interface i of a parsable Go file of the tree
DeclaredAnywhere ==
  UNION {{<<q, i>> : i \in InterfacesIn(q)} : q \in {r \in GoPaths : Loads(r)}}

\* the line is the zero-based line of a method of the document whose
\* receiver type has, over the whole tree, every method of an interface
\* that lists a method of that name
MarkJustified(document, line) ==
  \E i \in MethodsIn(document) :
    /\ FuncPos(fs[document], i).Line - 1 = line
    /\ \E h \in DeclaredAnywhere :
         /\ fs[document][i].name \in Listed(h[1], h[2])
         /\ Listed(h[1], h[2]) \subseteq
              NamesAnywhere(getReceiverType(fs[document][i].recv))

(***************************************************************************)
(* C21: a method is marked as an interface implementation, by the lens of  *)
(* provideCodeLenses or by the gutter decoration, only if its receiver     *)
(* type has every method of some interface that lists a method of that     *)
(* name.                                                                   *)
(***************************************************************************)
C21_MarkedOnlyIfTypeSatisfies ==
  \A r \in DOMAIN runs :
    /\ \A k \in DOMAIN runs[r].codeLenses :
         runs[r].codeLenses[k].title = "interface implementation" =>
           MarkJustified(runs[r].document, runs[r].codeLenses[k].line)
    /\ runs[r].implementationTask.applied =>
         \A line \in runs[r].implementationTask.computed :
           MarkJustified(runs[r].document, line)

\* the calls of provideCodeLenses that change events have caused or will
\* cause: the timeouts that have run and those that are set
CausedByChanges ==
  Cardinality({r \in DOMAIN runs : runs[r].cause = "timer"}) + Len(timers)

(***************************************************************************)
(* C23: re-analysis on change is delayed so that changes are collapsed:    *)
(* one change event on the active Go document causes exactly one call of   *)
(* provideCodeLenses, and k > 1 events within one delay cause fewer than   *)
(* k calls.                                                                *)
(***************************************************************************)
C23_ChangesDebounced ==
  log.background = 0 =>
    /\ log.events = 1 => CausedByChanges = 1
    /\ log.events > 1 => CausedByChanges < log.events

\* what the package analysis of the extension, and each of its four other
\* analyzer calls, settles to when the process, run on the files now on
\* disk, ends as `ending`
SettledPackage(ending) ==
  GoInterfaceCodeLensProvider_analyzePackageInterfaces(
    Exec(PackageLine(DirOf(Document)), ending))

SettledLists(ending) ==
  { analyzeFileInterfaces(Exec(FileInterfacesLine(Document), ending)),
    analyzeFileImplementations(Exec(FileImplementationsLine(Document), ending)) }
  \cup
  UNION {{ findImplementationsWithAST(
             Exec(AnalysisResult(<<>>,
                    findImplementations(fs, Root, m,
                      CHOOSE o \in Orders(TreeKeys(fs, Root)) : TRUE)), ending)),
           findInterfacesWithAST(
             Exec(AnalysisResult(findInterfaces(fs, Root, m), <<>>), ending)) } :
         m \in NavigationNames}

(***************************************************************************)
(* C24: every analyzer call of the extension resolves and never rejects,   *)
(* to the empty result when the process fails or writes something that is  *)
(* not JSON; no call of provideCodeLenses ends with an exception and no    *)
(* decoration update fails.                                                *)
(***************************************************************************)
C24_AnalyzerCallsAlwaysResolve ==
  /\ \A ending \in Endings :
       /\ SettledPackage(ending).state = "resolved"
       /\ \A settled \in SettledLists(ending) : settled.state = "resolved"
  /\ \A ending \in Endings \ {"ok"} :
       /\ SettledPackage(ending).state = "resolved" =>
            SettledPackage(ending).value = {}
       /\ \A settled \in SettledLists(ending) : settled.value = <<>>
  /\ \A r \in DOMAIN runs :
       /\ runs[r].pc # "threw"
       /\ runs[r].interfaceTask.pc # "failed"
       /\ runs[r].implementationTask.pc # "failed"

\* a call of provideCodeLenses has returned its list although a process it
\* awaited failed, and its decoration updates have run to their end
C24_Witness ==
  \E r \in DOMAIN runs :
    /\ runs[r].pc = "returned"
    /\ runs[r].failed
    /\ runs[r].interfaceTask.pc = "done"
    /\ runs[r].implementationTask.pc = "done"

\* run r is the only one with work left: every other call has returned and
\* its decoration updates have ended
OnlyPending(r) ==
  \A q \in DOMAIN runs \ {r} :
    /\ runs[q].pc = "returned"
    /\ runs[q].interfaceTask.pc \in {"idle", "done"}
    /\ runs[q].implementationTask.pc \in {"idle", "done"}

\* this step ends the interface, the implementation update of run r
InterfaceUpdateEnds(r) ==
  runs[r].interfaceTask.pc = "callback" /\ runs'[r].interfaceTask.pc = "done"
ImplementationUpdateEnds(r) ==
  runs[r].implementationTask.pc = "callback" /\ runs'[r].implementationTask.pc = "done"

(***************************************************************************)
(* C26: when a re-analysis of the active document ends, the gutter         *)
(* decorations shown are what that analysis found; when it found no        *)
(* interface method (no implementation), the decorations of an earlier     *)
(* analysis are gone.  Stated for an analysis that ends while no other is  *)
(* under way.                                                              *)
(***************************************************************************)
C26_DecorationsFollowAnalysis ==
  [][\A r \in DOMAIN runs :
       (OnlyPending(r) /\ editor = runs[r].document) =>
         /\ InterfaceUpdateEnds(r) =>
              shown'[editor].interface.lines = runs'[r].interfaceTask.computed
         /\ ImplementationUpdateEnds(r) =>
              shown'[editor].implementation.lines =
                runs'[r].implementationTask.computed]_vars

\* every call of provideCodeLenses has returned and every decoration update
\* has ended
AllEnded ==
  /\ runs # <<>>
  /\ \A r \in DOMAIN runs :
       /\ runs[r].pc = "returned"
       /\ runs[r].interfaceTask.pc = "done"
       /\ runs[r].implementationTask.pc = "done"

\* the run that was started last
LastRun == runs[Len(runs)]

\* the decorations an editor shows were computed for the document it shows
FromOwnDocument(d) ==
  /\ shown[d].interface.from \in {"none", d}
  /\ shown[d].implementation.from \in {"none", d}

(***************************************************************************)
(* C25: whatever the interleaving of overlapping calls of                  *)
(* provideCodeLenses for one document, once all of them have ended the     *)
(* decorations shown are those the call started last computed; and a set   *)
(* of decorations is only ever applied to an editor that shows the         *)
(* analysed document.  The first part is stated for calls that all set     *)
(* their decorations, so that no update that returned early is involved.   *)
(***************************************************************************)
C25_LastStartedRunWins ==
  /\ (AllEnded /\ \A r \in DOMAIN runs : runs[r].interfaceTask.applied) =>
       shown[LastRun.document].interface.lines = LastRun.interfaceTask.computed
  /\ (AllEnded /\ \A r \in DOMAIN runs : runs[r].implementationTask.applied) =>
       shown[LastRun.document].implementation.lines =
         LastRun.implementationTask.computed
  /\ \A d \in EditorDocuments : FromOwnDocument(d)

====
